---- MODULE Spec2Model ----
(***************************************************************************)
(* A model of the TypeAnalyzer of type-explorer (src/unnamed/part_002).    *)
(*                                                                         *)
(* The JavaScript heap is a function from object identities to object      *)
(* records; a JavaScript value is a primitive or a reference into the      *)
(* heap.  analyze and the handlers it dispatches to are operators that     *)
(* return the AnalysisResult together with the contents of the shared      *)
(* context.visited WeakSet after the call.  A raised exception is the      *)
(* pseudo-result Throw(..) that the enclosing try/catch turns into an      *)
(* error variant.                                                          *)
(***************************************************************************)
EXTENDS Integers, Sequences, FiniteSets, TLC

VARIABLES
  heap,         \* the objects the analysed values refer to
  config,       \* TypeAnalyzer.config without customTypes
  customTypes,  \* TypeAnalyzer.config.customTypes: class name -> handler
  value,        \* the argument of the last top-level analyze call
  result,       \* what that call returned
  visited,      \* context.visited when that call returned
  schema,       \* the last call on a schema adapter: its arguments and its outcome
  givenContext, \* the context the last analyze call was given, as it was at the call
  tables,       \* the Map objects that serve as customTypes tables, by identity
  analyzers     \* the constructed analyzers: the identity of each one's config.customTypes

vars == <<heap, config, customTypes, value, result, visited, schema, givenContext, tables, analyzers>>

\* Bounds of the model.
MaxDepth == 2
MaxLen == 3
MaxCount == 3

-----------------------------------------------------------------------------
(* JavaScript values *)

Undefined == [k |-> "undefined", v |-> ""]
Null == [k |-> "null", v |-> ""]
Num(s) == [k |-> "number", v |-> s]
Str(s) == [k |-> "string", v |-> s]
Bool(s) == [k |-> "boolean", v |-> s]
BigInt(s) == [k |-> "bigint", v |-> s]
Sym(s) == [k |-> "symbol", v |-> s]
Func(s) == [k |-> "function", v |-> s]
Ref(id) == [k |-> "ref", v |-> id]

\* Symbol() has no description
NoDescription == "<none>"

\* the typeof operator
typeof(val) ==
  IF val.k \in {"ref", "null"} THEN "object" ELSE val.k

\* path entries: a property key or an array index
PKey(s) == [key |-> s]
PIdx(i) == [idx |-> i]

\* an optional field: <<>> is undefined, <<x>> is x
None == <<>>
Some(x) == <<x>>

(* exceptions *)
Throw(kind, message) == [type |-> "$throw", kind |-> kind, message |-> message]
IsThrow(r) == r.type = "$throw"

\* error instanceof Error ? error.message : String(error)
errorText(t) ==
  CASE t.kind = "Error" -> t.message
    [] t.kind = "string" -> t.message
    [] OTHER -> "[object Object]"

-----------------------------------------------------------------------------
(* heap objects *)

\* an own property: a data property (get = "", set = FALSE) or an accessor
DataProp(name, val) ==
  [name |-> name, enumerable |-> TRUE, get |-> "", set |-> FALSE, val |-> val]
HiddenProp(name, val) ==
  [name |-> name, enumerable |-> FALSE, get |-> "", set |-> FALSE, val |-> val]
Getter(name, val, hasSetter) ==
  [name |-> name, enumerable |-> TRUE, get |-> "returns", set |-> hasSetter, val |-> val]
ThrowingGetter(name) ==
  [name |-> name, enumerable |-> TRUE, get |-> "throws", set |-> FALSE, val |-> Undefined]
SetterOnly(name) ==
  [name |-> name, enumerable |-> TRUE, get |-> "", set |-> TRUE, val |-> Undefined]

EmptyObject ==
  [isArray |-> FALSE, ctor |-> "Object", proto |-> "Object.prototype",
   props |-> <<>>, syms |-> <<>>, items |-> <<>>, entries |-> <<>>, time |-> ""]

Obj(props) == [EmptyObject EXCEPT !.props = props]
Instance(ctor, props) ==
  [EmptyObject EXCEPT !.ctor = ctor, !.proto = ctor \o ".prototype", !.props = props]
Arr(items) ==
  [EmptyObject EXCEPT !.isArray = TRUE, !.ctor = "Array", !.proto = "Array.prototype",
                      !.items = items]
MapOf(entries) ==
  [EmptyObject EXCEPT !.ctor = "Map", !.proto = "Map.prototype", !.entries = entries]
SetOf(items) ==
  [EmptyObject EXCEPT !.ctor = "Set", !.proto = "Set.prototype", !.items = items]
DateOf(time) ==
  [EmptyObject EXCEPT !.ctor = "Date", !.proto = "Date.prototype", !.time = time]

\* names that start with "#"
HashNames == {"#secret"}
startsWithHash(name) == name \in HashNames

\* the own members of the prototype objects: name -> what reading it gives
PrototypeMembers(proto) ==
  CASE proto = "Point.prototype" ->
         << [name |-> "constructor", reads |-> "function"],
            [name |-> "norm", reads |-> "function"],
            [name |-> "unit", reads |-> "data"] >>
    [] proto = "DataNode.prototype" ->
         << [name |-> "constructor", reads |-> "function"],
            [name |-> "value", reads |-> "throws"],
            [name |-> "addChild", reads |-> "function"] >>
    [] OTHER -> << [name |-> "constructor", reads |-> "function"] >>

\* prototype.constructor?.name
PrototypeConstructor(proto) ==
  CASE proto = "Point.prototype" -> "Point"
    [] proto = "DataNode.prototype" -> "DataNode"
    [] proto = "Anon.prototype" -> ""
    [] proto = "ValidationError.prototype" -> "ValidationError"
    [] proto = "MyMap.prototype" -> "MyMap"
    [] OTHER -> "Object"

\* class X extends Y: the class a class of the model extends, "" for none
SuperClass(ctor) ==
  CASE ctor = "ValidationError" -> "Error"
    [] ctor = "MyMap" -> "Map"
    [] OTHER -> ""

-----------------------------------------------------------------------------
(* the analyzer: env is [heap, config, customTypes], a context is           *)
(* [depth, path, visited]; every operator that can reach analyze returns    *)
(* Ret(result, visited after the call)                                      *)

Ret(res, vis) == [res |-> res, visited |-> vis]

\* a default context whose WeakSet is created once and shared by every call
defaultContext_shared == [depth |-> 0, path |-> <<>>, visited |-> visited]

\* context = { depth: 0, path: [], visited: new WeakSet() }
defaultContext == [depth |-> 0, path |-> <<>>, visited |-> {}]

\* a descent that extends the path and keeps the depth of the caller
newContext_sameDepth(context, key, vis) ==
  [depth |-> context.depth, path |-> Append(context.path, key), visited |-> vis]

\* { ...context, depth: context.depth + 1, path: [...context.path, key] }
newContext(context, key, vis) ==
  [depth |-> context.depth + 1, path |-> Append(context.path, key), visited |-> vis]

\* { ...context, depth: context.depth + 1 }
deeperContext(context, vis) ==
  [depth |-> context.depth + 1, path |-> context.path, visited |-> vis]

maxDepthReached(context) == [type |-> "max-depth-reached", path |-> context.path]
circularReference(context) == [type |-> "circular-reference", path |-> context.path]
errorVariant(t, path) == [type |-> "error", error |-> errorText(t), path |-> path]

handleNull(val, context) == [type |-> "null", path |-> context.path]
handleUndefined(val, context) == [type |-> "undefined", path |-> context.path]
handlePrimitive(val, context) ==
  [type |-> typeof(val), value |-> val.v, path |-> context.path]
handleSymbol(val, context) ==
  [type |-> "symbol",
   description |-> IF val.v = NoDescription THEN None ELSE Some(val.v),
   path |-> context.path]

\* the declared parameters of the functions of the model
analyzeFunctionParameters(val) ==
  CASE val.v = "add" -> [count |-> 2, names |-> <<"a", "b">>]
    [] OTHER -> [count |-> 0, names |-> <<>>]

handleFunction(env, val, context) ==
  [type |-> "function",
   name |-> IF val.v = "" THEN "(anonymous)" ELSE val.v,
   isAsync |-> val.v = "asyncFunction",
   isGenerator |-> val.v = "generatorFunction",
   path |-> context.path,
   parameters |-> IF env.config.includeMethods
                    THEN Some(analyzeFunctionParameters(val)) ELSE None]

\* this.typeHandlers.get(baseType)!(value, context), baseType not "object"
baselineHandler(env, val, context) ==
  CASE val.k = "undefined" -> handleUndefined(val, context)
    [] val.k \in {"string", "number", "boolean", "bigint"} -> handlePrimitive(val, context)
    [] val.k = "symbol" -> handleSymbol(val, context)
    [] val.k = "function" -> handleFunction(env, val, context)

\* the bound taken one level too early
depthExceeded_atBound(env, context) == context.depth >= env.config.maxDepth

\* a bound that lets the descent go two levels further
depthExceeded_late(env, context) == context.depth > env.config.maxDepth + 2

\* context.depth > this.config.maxDepth
depthExceeded(env, context) == context.depth > env.config.maxDepth

\* a handler that does not record the value it is analysing
markVisited_forgets(vis, id) == vis

\* context.visited.add(value)
markVisited(vis, id) == vis \cup {id}

\* Map.prototype.get: "" when the table has no entry
tableGet(table, name) == IF name \in DOMAIN table THEN table[name] ELSE ""

\* a registration that does not overwrite an entry the table already has
tableSet_keepsFirst(table, name, handler) ==
  IF name \in DOMAIN table
    THEN table
    ELSE [n \in DOMAIN table \cup {name} |-> IF n = name THEN handler ELSE table[n]]

\* Map.prototype.set
tableSet(table, name, handler) ==
  [n \in DOMAIN table \cup {name} |-> IF n = name THEN handler ELSE table[n]]

\* a lookup that only knows the built-in names
customHandlerOf_builtInOnly(env, id) ==
  IF env.heap[id].ctor \in {"Date", "RegExp", "Map", "Set", "Promise", "Error"}
    THEN tableGet(env.customTypes, env.heap[id].ctor) ELSE ""

\* a lookup by instanceof: a class without an entry gets the entry of the class it extends
customHandlerOf_inherited(env, id) ==
  IF env.heap[id].ctor = "" THEN ""
  ELSE IF tableGet(env.customTypes, env.heap[id].ctor) # ""
    THEN tableGet(env.customTypes, env.heap[id].ctor)
  ELSE tableGet(env.customTypes, SuperClass(env.heap[id].ctor))

\* value?.constructor?.name && this.config.customTypes.get(value.constructor.name)
customHandlerOf(env, id) ==
  IF env.heap[id].ctor # "" THEN tableGet(env.customTypes, env.heap[id].ctor) ELSE ""

(* JSON.stringify of an AnalysisResult: the text is modelled by the tree it *)
(* spells out; number values that JSON cannot spell become null, a bigint   *)
(* raises                                                                   *)
jsonNumber(v) == IF v \in {"NaN", "Infinity"} THEN "null" ELSE v
BigIntTypeError == Throw("Error", "Do not know how to serialize a BigInt")

RECURSIVE stringify(_)
stringifySeq(rs) ==
  LET texts == [i \in 1..Len(rs) |-> stringify(rs[i])]
  IN IF \E i \in 1..Len(rs) : IsThrow(texts[i])
       THEN BigIntTypeError
       ELSE [type |-> "$json", items |-> texts]

stringify(r) ==
  CASE r.type = "bigint" -> BigIntTypeError
    [] r.type = "number" -> [r EXCEPT !.value = jsonNumber(r.value)]
    [] r.type = "array" ->
         LET sub == stringifySeq([i \in 1..Len(r.elementTypes) |-> r.elementTypes[i].type])
         IN IF IsThrow(sub) THEN sub
            ELSE [r EXCEPT !.elementTypes =
                    [i \in 1..Len(r.elementTypes) |->
                       [r.elementTypes[i] EXCEPT !.type = sub.items[i]]]]
    [] r.type = "object" ->
         LET symbols == IF r.symbolProperties = None THEN <<>> ELSE r.symbolProperties[1]
             sub == stringifySeq([i \in 1..Len(r.properties) |-> r.properties[i].value]
                                 \o [i \in 1..Len(symbols) |-> symbols[i].value])
             n == Len(r.properties)
         IN IF IsThrow(sub) THEN sub
            ELSE [r EXCEPT
                    !.properties = [i \in 1..n |-> [r.properties[i] EXCEPT !.value = sub.items[i]]],
                    !.symbolProperties =
                       IF r.symbolProperties = None THEN None
                       ELSE Some([i \in 1..Len(symbols) |->
                                    [symbols[i] EXCEPT !.value = sub.items[n + i]]])]
    [] r.type = "Map" ->
         LET es == IF r.entries = None THEN <<>> ELSE r.entries[1]
             sub == stringifySeq([i \in 1..Len(es) |-> es[i].key]
                                 \o [i \in 1..Len(es) |-> es[i].value])
         IN IF IsThrow(sub) THEN sub
            ELSE [r EXCEPT !.entries =
                    IF r.entries = None THEN None
                    ELSE Some([i \in 1..Len(es) |->
                                 [key |-> sub.items[i], value |-> sub.items[Len(es) + i]]])]
    [] r.type = "Set" ->
         LET vs == IF r.values = None THEN <<>> ELSE r.values[1]
             sub == stringifySeq(vs)
         IN IF IsThrow(sub) THEN sub
            ELSE [r EXCEPT !.values = IF r.values = None THEN None ELSE Some(sub.items)]
    [] OTHER -> r

\* a table that replaces the representative of a group by each later element of the group
typeMapAdd_keepsLast(typeMap, typeKey, elementType, index) ==
  IF \E i \in 1..Len(typeMap) : typeMap[i].key = typeKey
    THEN [i \in 1..Len(typeMap) |->
            IF typeMap[i].key = typeKey
              THEN [typeMap[i] EXCEPT !.type = elementType, !.count = @ + 1,
                                      !.indices = Append(@, index)]
              ELSE typeMap[i]]
    ELSE Append(typeMap, [key |-> typeKey, type |-> elementType,
                          count |-> 1, indices |-> <<index>>])

\* typeMap.has(typeKey) ? count++, indices.push(index) : typeMap.set(typeKey, ...)
typeMapAdd(typeMap, typeKey, elementType, index) ==
  IF \E i \in 1..Len(typeMap) : typeMap[i].key = typeKey
    THEN [i \in 1..Len(typeMap) |->
            IF typeMap[i].key = typeKey
              THEN [typeMap[i] EXCEPT !.count = @ + 1, !.indices = Append(@, index)]
              ELSE typeMap[i]]
    ELSE Append(typeMap, [key |-> typeKey, type |-> elementType,
                          count |-> 1, indices |-> <<index>>])

\* an insertion that puts a group before the groups of equal count
RECURSIVE insertByCount_unstable(_, _)
insertByCount_unstable(sorted, g) ==
  IF sorted = <<>> THEN <<g>>
  ELSE IF Head(sorted).count > g.count
         THEN <<Head(sorted)>> \o insertByCount_unstable(Tail(sorted), g)
         ELSE <<g>> \o sorted

\* .sort((a, b) => b.count - a.count), a stable sort
RECURSIVE insertByCount(_, _)
insertByCount(sorted, g) ==
  IF sorted = <<>> THEN <<g>>
  ELSE IF Head(sorted).count >= g.count
         THEN <<Head(sorted)>> \o insertByCount(Tail(sorted), g)
         ELSE <<g>> \o sorted

RECURSIVE sortByCount(_)
sortByCount(groups) ==
  IF groups = <<>> THEN <<>>
  ELSE insertByCount(sortByCount(SubSeq(groups, 1, Len(groups) - 1)), groups[Len(groups)])

\* Array.from(typeMap.values()).map(...): frequency is count / arr.length
elementTypesOf(typeMap, length) ==
  sortByCount([i \in 1..Len(typeMap) |->
                 [type |-> typeMap[i].type,
                  frequency |-> [num |-> typeMap[i].count, den |-> length],
                  count |-> typeMap[i].count,
                  indices |-> typeMap[i].indices]])

\* properties[prop] = ...: a new key goes last, an existing key keeps its place
putEntry(entries, key, res) ==
  IF \E i \in 1..Len(entries) : entries[i].key = key
    THEN [i \in 1..Len(entries) |->
            IF entries[i].key = key THEN [entries[i] EXCEPT !.value = res] ELSE entries[i]]
    ELSE Append(entries, [key |-> key, value |-> res])

\* includePrivateProps ? Object.getOwnPropertyNames(value) : Object.keys(value),
\* without the names the loop skips
propertyNames(env, id) ==
  SelectSeq(env.heap[id].props,
            LAMBDA p : IF env.config.includePrivateProps
                         THEN TRUE
                         ELSE p.enumerable /\ ~startsWithHash(p.name))

\* descriptor?.get || descriptor?.set
isAccessor(prop) == prop.get # "" \/ prop.set

accessorVariant(prop, context) ==
  [type |-> "accessor", hasGetter |-> prop.get # "", hasSetter |-> prop.set,
   path |-> Append(context.path, PKey(prop.name))]

GetterError == Throw("Error", "getter failed")

\* sym.toString() and sym.description || "Symbol"
symbolToString(prop) ==
  IF prop.name = NoDescription THEN "Symbol()" ELSE "Symbol(" \o prop.name \o ")"
symbolPathKey(prop) ==
  IF prop.name \in {NoDescription, ""} THEN "Symbol" ELSE prop.name

\* a filter that skips the members whose read raises
prototypeMethods_guarded(proto) ==
  [thrown |-> FALSE,
   names |-> [i \in 1..Len(SelectSeq(PrototypeMembers(proto), LAMBDA m : m.reads = "function")) |->
                SelectSeq(PrototypeMembers(proto), LAMBDA m : m.reads = "function")[i].name]]

\* Object.getOwnPropertyNames(prototype).filter(name => typeof prototype[name] === "function")
prototypeMethods(proto) ==
  LET members == PrototypeMembers(proto)
  IN IF \E i \in 1..Len(members) : members[i].reads = "throws"
       THEN [thrown |-> TRUE, names |-> <<>>]
       ELSE [thrown |-> FALSE,
             names |-> [i \in 1..Len(SelectSeq(members, LAMBDA m : m.reads = "function")) |->
                          SelectSeq(members, LAMBDA m : m.reads = "function")[i].name]]

PrototypeError == Throw("Error", "prototype member failed")

-----------------------------------------------------------------------------
RECURSIVE analyze(_, _, _)
RECURSIVE analyzeArrayLoop(_, _, _, _, _, _)
RECURSIVE objectProperties(_, _, _, _, _, _)
RECURSIVE objectSymbols(_, _, _, _, _, _)
RECURSIVE mapEntries(_, _, _, _, _, _)
RECURSIVE setValues(_, _, _, _, _, _)

\* arr.forEach((element, index) => ...) from index on; an exception ends the loop
analyzeArrayLoop(env, arr, context, index, typeMap, vis) ==
  IF index >= Len(arr)
    THEN [thrown |-> None, typeMap |-> typeMap, visited |-> vis]
    ELSE LET r == analyze(env, arr[index + 1], newContext(context, PIdx(index), vis))
             typeKey == stringify(r.res)
         IN IF IsThrow(typeKey)
              THEN [thrown |-> Some(typeKey), typeMap |-> typeMap, visited |-> r.visited]
              ELSE analyzeArrayLoop(env, arr, context, index + 1,
                                    typeMapAdd(typeMap, typeKey, r.res, index), r.visited)

analyzeArrayElements(env, arr, context) ==
  LET loop == analyzeArrayLoop(env, arr, context, 0, <<>>, context.visited)
  IN IF loop.thrown # None
       THEN [thrown |-> loop.thrown, elementTypes |-> <<>>, visited |-> loop.visited]
       ELSE [thrown |-> None, elementTypes |-> elementTypesOf(loop.typeMap, Len(arr)),
             visited |-> loop.visited]

handleArray(env, id, context) ==
  LET elems == analyzeArrayElements(env, env.heap[id].items,
                                    [context EXCEPT !.visited = markVisited(@, id)])
  IN IF elems.thrown # None
       THEN Ret(elems.thrown[1], elems.visited)
       ELSE Ret([type |-> "array", length |-> Len(env.heap[id].items),
                 elementTypes |-> elems.elementTypes, path |-> context.path],
                elems.visited)

\* a catch block that reports the object's path instead of the member's
objectProperty_errorAtObject(env, prop, context, vis) ==
  IF env.config.includeGettersSetters /\ isAccessor(prop)
    THEN Ret(accessorVariant(prop, context), vis)
    ELSE IF prop.get = "throws"
      THEN Ret(errorVariant(GetterError, context.path), vis)
      ELSE analyze(env, prop.val, newContext(context, PKey(prop.name), vis))

\* a loop that reads every member, whatever includeGettersSetters says
objectProperty_invokesGetter(env, prop, context, vis) ==
  IF prop.get = "throws"
    THEN Ret(errorVariant(GetterError, Append(context.path, PKey(prop.name))), vis)
    ELSE analyze(env, prop.val, newContext(context, PKey(prop.name), vis))

\* one round of the loop over propertyNames
objectProperty(env, prop, context, vis) ==
  IF env.config.includeGettersSetters /\ isAccessor(prop)
    THEN Ret(accessorVariant(prop, context), vis)
    ELSE IF prop.get = "throws"
      THEN Ret(errorVariant(GetterError, Append(context.path, PKey(prop.name))), vis)
      ELSE analyze(env, prop.val, newContext(context, PKey(prop.name), vis))

objectProperties(env, names, context, i, properties, vis) ==
  IF i > Len(names)
    THEN [entries |-> properties, visited |-> vis]
    ELSE LET r == objectProperty(env, names[i], context, vis)
         IN objectProperties(env, names, context, i + 1,
                             putEntry(properties, names[i].name, r.res), r.visited)

\* one round of the loop over Object.getOwnPropertySymbols(value)
objectSymbol(env, prop, context, vis) ==
  IF prop.get = "throws"
    THEN Ret(errorVariant(GetterError, Append(context.path, PKey(symbolPathKey(prop)))), vis)
    ELSE analyze(env, prop.val, newContext(context, PKey(symbolPathKey(prop)), vis))

objectSymbols(env, syms, context, i, symbolProps, vis) ==
  IF i > Len(syms)
    THEN [entries |-> symbolProps, visited |-> vis]
    ELSE LET r == objectSymbol(env, syms[i], context, vis)
         IN objectSymbols(env, syms, context, i + 1,
                          putEntry(symbolProps, symbolToString(syms[i]), r.res), r.visited)

\* a handler that attaches the prototype field whatever the prototype is
handleObject_prototypeAlways(env, id, context) ==
  LET obj == env.heap[id]
      props == objectProperties(env, propertyNames(env, id), context, 1, <<>>,
                                markVisited(context.visited, id))
      symbols == objectSymbols(env, obj.syms, context, 1, <<>>, props.visited)
      withPrototype == env.config.includePrototype
      methods == prototypeMethods(obj.proto)
  IN IF withPrototype /\ env.config.includeMethods /\ methods.thrown
       THEN Ret(PrototypeError, symbols.visited)
       ELSE Ret([type |-> "object",
                 constructor |-> IF obj.ctor = "" THEN "Object" ELSE obj.ctor,
                 path |-> context.path,
                 properties |-> props.entries,
                 symbolProperties |-> IF Len(symbols.entries) > 0
                                        THEN Some(symbols.entries) ELSE None,
                 prototype |-> IF withPrototype
                                 THEN Some([constructor |-> PrototypeConstructor(obj.proto),
                                            methods |-> IF env.config.includeMethods
                                                          THEN Some(methods.names) ELSE None])
                                 ELSE None],
                symbols.visited)

handleObject(env, id, context) ==
  LET obj == env.heap[id]
      props == objectProperties(env, propertyNames(env, id), context, 1, <<>>,
                                markVisited(context.visited, id))
      symbols == objectSymbols(env, obj.syms, context, 1, <<>>, props.visited)
      withPrototype == /\ env.config.includePrototype
                       /\ obj.proto \notin {"null", "Object.prototype"}
      methods == prototypeMethods(obj.proto)
  IN IF withPrototype /\ env.config.includeMethods /\ methods.thrown
       THEN Ret(PrototypeError, symbols.visited)
       ELSE Ret([type |-> "object",
                 constructor |-> IF obj.ctor = "" THEN "Object" ELSE obj.ctor,
                 path |-> context.path,
                 properties |-> props.entries,
                 symbolProperties |-> IF Len(symbols.entries) > 0
                                        THEN Some(symbols.entries) ELSE None,
                 prototype |-> IF withPrototype
                                 THEN Some([constructor |-> PrototypeConstructor(obj.proto),
                                            methods |-> IF env.config.includeMethods
                                                          THEN Some(methods.names) ELSE None])
                                 ELSE None],
                symbols.visited)

(* the built-in named-composite handlers *)

dateHandler(env, id, context) ==
  IF env.heap[id].time = "invalid"
    THEN Throw("Error", "Invalid time value")
    ELSE [type |-> "Date", value |-> env.heap[id].time, timestamp |-> env.heap[id].time,
          path |-> context.path]

mapEntries(env, entries, context, i, acc, vis) ==
  IF i > Len(entries)
    THEN [list |-> acc, visited |-> vis]
    ELSE LET k == analyze(env, entries[i].key, deeperContext(context, vis))
             v == analyze(env, entries[i].value, deeperContext(context, k.visited))
         IN mapEntries(env, entries, context, i + 1,
                       Append(acc, [key |-> k.res, value |-> v.res]), v.visited)

\* a Map handler that still lists the entries of a Map found at maxDepth
mapHandler_atBound(env, id, context) ==
  LET es == mapEntries(env, env.heap[id].entries, context, 1, <<>>, context.visited)
      recurse == env.config.maxDepth >= context.depth
  IN Ret([type |-> "Map", size |-> Len(env.heap[id].entries),
          entries |-> IF recurse THEN Some(es.list) ELSE None,
          path |-> context.path],
         IF recurse THEN es.visited ELSE context.visited)

mapHandler(env, id, context) ==
  LET es == mapEntries(env, env.heap[id].entries, context, 1, <<>>, context.visited)
      recurse == env.config.maxDepth > context.depth
  IN Ret([type |-> "Map", size |-> Len(env.heap[id].entries),
          entries |-> IF recurse THEN Some(es.list) ELSE None,
          path |-> context.path],
         IF recurse THEN es.visited ELSE context.visited)

setValues(env, items, context, i, acc, vis) ==
  IF i > Len(items)
    THEN [list |-> acc, visited |-> vis]
    ELSE LET r == analyze(env, items[i], deeperContext(context, vis))
         IN setValues(env, items, context, i + 1, Append(acc, r.res), r.visited)

setHandler(env, id, context) ==
  LET vs == setValues(env, env.heap[id].items, context, 1, <<>>, context.visited)
      recurse == env.config.maxDepth > context.depth
  IN Ret([type |-> "Set", size |-> Len(env.heap[id].items),
          values |-> IF recurse THEN Some(vs.list) ELSE None,
          path |-> context.path],
         IF recurse THEN vs.visited ELSE context.visited)

\* RegExp, Promise, Error and the typed arrays: a fixed shape read off the value
fixedShapeHandler(handler, id, context) ==
  [type |-> handler, path |-> context.path]

(* handlers a caller registers *)
CustomHandlers == {"leafHandler", "otherHandler", "throwingHandler", "stringThrower"}

\* what a caller's handler returns or raises, given (value, context)
customHandlerOutput(handler, id, context) ==
  CASE handler = "leafHandler" -> [type |-> "custom", by |-> "leafHandler", path |-> context.path]
    [] handler = "otherHandler" -> [type |-> "custom", by |-> "otherHandler", path |-> context.path]
    [] handler = "throwingHandler" -> Throw("Error", "handler failed")
    [] handler = "stringThrower" -> Throw("string", "thrown text")

\* customHandler(value, context)
invokeHandler(env, handler, id, context) ==
  CASE handler = "Map" -> mapHandler(env, id, context)
    [] handler = "Set" -> setHandler(env, id, context)
    [] handler = "Date" -> Ret(dateHandler(env, id, context), context.visited)
    [] handler \in CustomHandlers ->
         Ret(customHandlerOutput(handler, id, context), context.visited)
    [] OTHER -> Ret(fixedShapeHandler(handler, id, context), context.visited)

\* value.constructor.name of any value
constructorNameOf(env, val) ==
  CASE val.k = "ref" -> env.heap[val.v].ctor
    [] val.k = "number" -> "Number"
    [] val.k = "string" -> "String"
    [] val.k = "boolean" -> "Boolean"
    [] val.k = "bigint" -> "BigInt"
    [] val.k = "symbol" -> "Symbol"
    [] val.k = "function" -> "Function"
    [] OTHER -> ""

\* a dispatch that consults the named-composite table before the baseline handlers
analyzeBody_customFirst(env, val, context) ==
  IF depthExceeded(env, context)
    THEN Ret(maxDepthReached(context), context.visited)
  ELSE IF tableGet(env.customTypes, constructorNameOf(env, val)) \in CustomHandlers
    THEN Ret(customHandlerOutput(tableGet(env.customTypes, constructorNameOf(env, val)),
                                 val.v, context), context.visited)
  ELSE IF val.k = "null"
    THEN Ret(handleNull(val, context), context.visited)
  ELSE IF typeof(val) # "object"
    THEN Ret(baselineHandler(env, val, context), context.visited)
  ELSE IF env.heap[val.v].isArray
    THEN handleArray(env, val.v, context)
  ELSE IF val.v \in context.visited
    THEN Ret(circularReference(context), context.visited)
  ELSE IF customHandlerOf(env, val.v) # ""
    THEN invokeHandler(env, customHandlerOf(env, val.v), val.v, context)
  ELSE handleObject(env, val.v, context)

\* a dispatch that looks the constructor name up before it looks at context.visited
analyzeBody_lookupBeforeVisited(env, val, context) ==
  IF depthExceeded(env, context)
    THEN Ret(maxDepthReached(context), context.visited)
  ELSE IF val.k = "null"
    THEN Ret(handleNull(val, context), context.visited)
  ELSE IF typeof(val) # "object"
    THEN Ret(baselineHandler(env, val, context), context.visited)
  ELSE IF env.heap[val.v].isArray
    THEN handleArray(env, val.v, context)
  ELSE IF customHandlerOf(env, val.v) # ""
    THEN invokeHandler(env, customHandlerOf(env, val.v), val.v, context)
  ELSE IF val.v \in context.visited
    THEN Ret(circularReference(context), context.visited)
  ELSE handleObject(env, val.v, context)

\* the try block of analyze
analyzeBody(env, val, context) ==
  IF depthExceeded(env, context)
    THEN Ret(maxDepthReached(context), context.visited)
  ELSE IF val.k = "null"
    THEN Ret(handleNull(val, context), context.visited)
  ELSE IF typeof(val) # "object"
    THEN Ret(baselineHandler(env, val, context), context.visited)
  ELSE IF env.heap[val.v].isArray
    THEN handleArray(env, val.v, context)
  ELSE IF val.v \in context.visited
    THEN Ret(circularReference(context), context.visited)
  ELSE IF customHandlerOf(env, val.v) # ""
    THEN invokeHandler(env, customHandlerOf(env, val.v), val.v, context)
  ELSE handleObject(env, val.v, context)

\* analyze without its try/catch
analyze_noCatch(env, val, context) == analyzeBody(env, val, context)

\* try { ... } catch (error) { return { type: "error", ... } }
analyze(env, val, context) ==
  LET r == analyzeBody(env, val, context)
  IN IF IsThrow(r.res)
       THEN Ret(errorVariant(r.res, context.path), r.visited)
       ELSE r

-----------------------------------------------------------------------------
(* the schema emitters (src/unnamed/part_003, part_004 and                  *)
(* src/src/adapters/openapi.adapter.ts): generateSchema takes a type        *)
(* description and returns text, or raises.  installed is what              *)
(* validateDependencies() finds.                                            *)

Emitted(text) == [type |-> "$text", text |-> text]

\* typeInfo.properties || {} and typeInfo.elementTypes, which a description may lack
propertiesOf(typeInfo) ==
  IF "properties" \in DOMAIN typeInfo THEN typeInfo.properties ELSE <<>>
elementTypesIn(typeInfo) ==
  IF "elementTypes" \in DOMAIN typeInfo THEN typeInfo.elementTypes ELSE <<>>

\* Array.prototype.join
RECURSIVE join(_, _)
join(texts, separator) ==
  IF texts = <<>> THEN ""
  ELSE IF Len(texts) = 1 THEN texts[1]
  ELSE texts[1] \o separator \o join(Tail(texts), separator)

\* the outcome of mapping an emitter over a list: the texts, or the first exception
mapped(outs) ==
  IF \E i \in 1..Len(outs) : IsThrow(outs[i])
    THEN outs[CHOOSE i \in 1..Len(outs) :
                /\ IsThrow(outs[i])
                /\ \A j \in 1..(i - 1) : ~IsThrow(outs[j])]
    ELSE [type |-> "$texts", texts |-> [i \in 1..Len(outs) |-> outs[i].text]]

\* values.map((v) => `'${v}'`).join(", ")
quoted(values) == join([i \in 1..Len(values) |-> "'" \o values[i] \o "'"], ", ")

NotInstalled(library, package) ==
  Throw("Error", library \o " is not installed. Please install it using: npm install " \o package)

\* catch (error) { throw new Error(`Failed to generate X schema: ${error.message}`) }
rethrown(library, out) ==
  IF IsThrow(out)
    THEN Throw("Error", "Failed to generate " \o library \o " schema: "
                          \o (IF out.kind = "Error" THEN out.message ELSE "Unknown error"))
    ELSE out

(* ZodSchemaAdapter *)

\* a switch whose default raises instead of falling back
zodLeaf_strict(typeInfo) ==
  CASE typeInfo.type = "string" -> Emitted("z.string()")
    [] typeInfo.type = "number" -> Emitted("z.number()")
    [] typeInfo.type = "boolean" -> Emitted("z.boolean()")
    [] typeInfo.type = "Date" -> Emitted("z.date()")
    [] typeInfo.type = "null" -> Emitted("z.null()")
    [] typeInfo.type = "undefined" -> Emitted("z.undefined()")
    [] typeInfo.type = "enum" -> Emitted("z.enum([" \o quoted(typeInfo.values) \o "])")
    [] OTHER -> Throw("Error", "Unsupported type: " \o typeInfo.type)

\* the cases of the switch that do not recurse
zodLeaf(typeInfo) ==
  CASE typeInfo.type = "string" -> Emitted("z.string()")
    [] typeInfo.type = "number" -> Emitted("z.number()")
    [] typeInfo.type = "boolean" -> Emitted("z.boolean()")
    [] typeInfo.type = "Date" -> Emitted("z.date()")
    [] typeInfo.type = "null" -> Emitted("z.null()")
    [] typeInfo.type = "undefined" -> Emitted("z.undefined()")
    [] typeInfo.type = "enum" -> Emitted("z.enum([" \o quoted(typeInfo.values) \o "])")
    [] OTHER -> Emitted("z.any()")

RECURSIVE zodGenerateSchema(_, _)
zodBody(installed, typeInfo) ==
  IF typeInfo.type = "object" THEN
    LET props == propertiesOf(typeInfo)
        outs == mapped([i \in 1..Len(props) |-> zodGenerateSchema(installed, props[i].value)])
    IN IF IsThrow(outs) THEN outs
       ELSE Emitted("z.object({\n  "
                    \o join([i \in 1..Len(props) |-> props[i].key \o ": " \o outs.texts[i]],
                            ",\n  ")
                    \o "\n})")
  ELSE IF typeInfo.type = "array" THEN
    LET groups == elementTypesIn(typeInfo)
        outs == mapped([i \in 1..Len(groups) |-> zodGenerateSchema(installed, groups[i].type)])
    IN IF Len(groups) = 0 THEN Emitted("z.array(z.any())")
       ELSE IF Len(groups) = 1
         THEN (IF IsThrow(outs) THEN outs ELSE Emitted("z.array(" \o outs.texts[1] \o ")"))
       ELSE IF IsThrow(outs) THEN outs
       ELSE Emitted("z.array(z.union([" \o join(outs.texts, ", ") \o "]))")
  ELSE IF typeInfo.type = "union" THEN
    LET outs == mapped([i \in 1..Len(typeInfo.types) |->
                          zodGenerateSchema(installed, typeInfo.types[i])])
    IN IF IsThrow(outs) THEN outs
       ELSE Emitted("z.union([" \o join(outs.texts, ", ") \o "])")
  ELSE IF typeInfo.type \in {"optional", "nullable"} THEN
    LET out == zodGenerateSchema(installed, typeInfo.valueType)
    IN IF IsThrow(out) THEN out
       ELSE Emitted(out.text \o (IF typeInfo.type = "optional" THEN ".optional()"
                                 ELSE ".nullable()"))
  ELSE zodLeaf(typeInfo)

zodGenerateSchema(installed, typeInfo) ==
  rethrown("Zod", IF installed THEN zodBody(installed, typeInfo)
                  ELSE NotInstalled("Zod", "zod"))

(* JoiSchemaAdapter *)

joiLeaf(typeInfo) ==
  CASE typeInfo.type = "string" -> Emitted("Joi.string()")
    [] typeInfo.type = "number" -> Emitted("Joi.number()")
    [] typeInfo.type = "boolean" -> Emitted("Joi.boolean()")
    [] typeInfo.type = "Date" -> Emitted("Joi.date()")
    [] typeInfo.type = "null" -> Emitted("Joi.any().allow(null)")
    [] typeInfo.type = "undefined" -> Emitted("Joi.any().allow(null)")
    [] typeInfo.type = "enum" -> Emitted("Joi.string().valid(" \o quoted(typeInfo.values) \o ")")
    [] OTHER -> Emitted("Joi.any()")

RECURSIVE joiGenerateSchema(_, _)
joiBody(installed, typeInfo) ==
  IF typeInfo.type = "object" THEN
    LET props == propertiesOf(typeInfo)
        outs == mapped([i \in 1..Len(props) |-> joiGenerateSchema(installed, props[i].value)])
    IN IF IsThrow(outs) THEN outs
       ELSE Emitted("Joi.object({\n  "
                    \o join([i \in 1..Len(props) |-> props[i].key \o ": " \o outs.texts[i]],
                            ",\n  ")
                    \o "\n})")
  ELSE IF typeInfo.type = "array" THEN
    LET groups == elementTypesIn(typeInfo)
        outs == mapped([i \in 1..Len(groups) |-> joiGenerateSchema(installed, groups[i].type)])
    IN IF Len(groups) = 0 THEN Emitted("Joi.array()")
       ELSE IF Len(groups) = 1
         THEN (IF IsThrow(outs) THEN outs
               ELSE Emitted("Joi.array().items(" \o outs.texts[1] \o ")"))
       ELSE IF IsThrow(outs) THEN outs
       ELSE Emitted("Joi.array().items(" \o join(outs.texts, ", ") \o ")")
  ELSE IF typeInfo.type = "union" THEN
    LET outs == mapped([i \in 1..Len(typeInfo.types) |->
                          joiGenerateSchema(installed, typeInfo.types[i])])
    IN IF IsThrow(outs) THEN outs
       ELSE Emitted("Joi.alternatives().try(" \o join(outs.texts, ", ") \o ")")
  ELSE IF typeInfo.type \in {"optional", "nullable"} THEN
    LET out == joiGenerateSchema(installed, typeInfo.valueType)
    IN IF IsThrow(out) THEN out
       ELSE Emitted(out.text \o (IF typeInfo.type = "optional" THEN ".optional()"
                                 ELSE ".allow(null)"))
  ELSE joiLeaf(typeInfo)

joiGenerateSchema(installed, typeInfo) ==
  rethrown("Joi", IF installed THEN joiBody(installed, typeInfo)
                  ELSE NotInstalled("Joi", "joi"))

(* YupSchemaAdapter *)

yupLeaf(typeInfo) ==
  CASE typeInfo.type = "string" -> Emitted("yup.string()")
    [] typeInfo.type = "number" -> Emitted("yup.number()")
    [] typeInfo.type = "boolean" -> Emitted("yup.boolean()")
    [] typeInfo.type = "Date" -> Emitted("yup.date()")
    [] typeInfo.type = "null" -> Emitted("yup.mixed().nullable()")
    [] typeInfo.type = "undefined" -> Emitted("yup.mixed().nullable()")
    [] typeInfo.type = "enum" -> Emitted("yup.string().oneOf([" \o quoted(typeInfo.values) \o "])")
    [] typeInfo.type = "union" -> Emitted("yup.mixed()")
    [] OTHER -> Emitted("yup.mixed()")

RECURSIVE yupGenerateSchema(_, _)
yupBody(installed, typeInfo) ==
  IF typeInfo.type = "object" THEN
    LET props == propertiesOf(typeInfo)
        outs == mapped([i \in 1..Len(props) |-> yupGenerateSchema(installed, props[i].value)])
    IN IF IsThrow(outs) THEN outs
       ELSE Emitted("yup.object({\n  "
                    \o join([i \in 1..Len(props) |-> props[i].key \o ": " \o outs.texts[i]],
                            ",\n  ")
                    \o "\n})")
  ELSE IF typeInfo.type = "array" THEN
    LET groups == elementTypesIn(typeInfo)
    IN IF Len(groups) = 1
         THEN LET out == yupGenerateSchema(installed, groups[1].type)
              IN IF IsThrow(out) THEN out ELSE Emitted("yup.array().of(" \o out.text \o ")")
         ELSE Emitted("yup.array()")
  ELSE IF typeInfo.type \in {"optional", "nullable"} THEN
    LET out == yupGenerateSchema(installed, typeInfo.valueType)
    IN IF IsThrow(out) THEN out
       ELSE Emitted(out.text \o (IF typeInfo.type = "optional" THEN ".optional()"
                                 ELSE ".nullable()"))
  ELSE yupLeaf(typeInfo)

yupGenerateSchema(installed, typeInfo) ==
  rethrown("Yup", IF installed THEN yupBody(installed, typeInfo)
                  ELSE NotInstalled("Yup", "yup"))

(* OpenAPISchemaAdapter: a schema object is a record of optional fields, a  *)
(* schemas table is a list of (key, value) entries in insertion order       *)

SchemaObject ==
  [type |-> None, format |-> None, items |-> None, ref |-> None, enum |-> None,
   oneOf |-> None, nullable |-> None, properties |-> None, required |-> None]

\* Object.assign(target, source)
RECURSIVE assign(_, _)
assign(target, source) ==
  IF source = <<>> THEN target
  ELSE assign(putEntry(target, Head(source).key, Head(source).value), Tail(source))

\* propName.charAt(0).toUpperCase() + propName.slice(1), for the member names of the model
Capitalized ==
    ("a" :> "A") @@ ("b" :> "B") @@ ("c" :> "C") @@ ("n" :> "N") @@ ("p" :> "P") @@
    ("z" :> "Z") @@ ("q" :> "Q") @@ ("s" :> "S") @@ ("back" :> "Back") @@ ("t" :>
    "T") @@ ("ok" :> "Ok") @@ ("bad" :> "Bad") @@ ("computed" :> "Computed") @@
    ("sink" :> "Sink") @@ ("hidden" :> "Hidden") @@ ("sub" :> "Sub") @@ ("x" :> "X")
    @@ ("y" :> "Y") @@ ("list" :> "List") @@ ("name" :> "Name") @@ ("get" :> "Get")
    @@ ("v" :> "V") @@ ("l" :> "L") @@ ("r" :> "R") @@ ("own" :> "Own") @@
    ("children" :> "Children") @@ ("self" :> "Self") @@ ("deep" :> "Deep") @@ ("m"
    :> "M") @@ ("u" :> "U") @@ ("k" :> "K") @@ ("tags" :> "Tags") @@ ("when" :>
    "When")
capitalize(propName) ==
  IF propName \in DOMAIN Capitalized THEN Capitalized[propName] ELSE propName

\* typeInfo.elementTypes[0].type of an empty elementTypes list
NoFirstElement ==
  Throw("Error", "Cannot read properties of undefined (reading 'type')")

isOptionalType(typeInfo) == typeInfo.type \in {"optional", "nullable"}

PropertySchema(propSchema, subSchemas) ==
  [type |-> "$property", schema |-> propSchema, subSchemas |-> subSchemas]

RECURSIVE generateComponentSchemas(_, _)
RECURSIVE generatePropertySchema(_, _)
RECURSIVE componentProperties(_, _, _, _)
RECURSIVE unionOptions(_, _, _, _)

\* the forEach over Object.entries(typeInfo.properties) from entry i on
componentProperties(props, name, i, acc) ==
  IF i > Len(props) THEN acc
  ELSE LET r == generatePropertySchema(props[i].value, name \o capitalize(props[i].key))
       IN IF IsThrow(r) THEN r
          ELSE componentProperties(props, name, i + 1,
                 [type |-> "$acc",
                  properties |-> putEntry(acc.properties, props[i].key, r.schema),
                  subSchemas |-> assign(acc.subSchemas, r.subSchemas),
                  required |-> IF isOptionalType(props[i].value) THEN acc.required
                               ELSE Append(acc.required, props[i].key)])

generateComponentSchemas(typeInfo, name) ==
  IF typeInfo.type = "object" THEN
    LET acc == componentProperties(propertiesOf(typeInfo), name, 1,
                 [type |-> "$acc", properties |-> <<>>, subSchemas |-> <<>>, required |-> <<>>])
    IN IF IsThrow(acc) THEN acc
       ELSE [type |-> "$schemas",
             schemas |-> assign(<<[key |-> name,
                                   value |-> [SchemaObject EXCEPT
                                                !.type = Some("object"),
                                                !.properties = Some(acc.properties),
                                                !.required = IF acc.required = <<>> THEN None
                                                             ELSE Some(acc.required)]]>>,
                                acc.subSchemas)]
  ELSE IF typeInfo.type = "array" THEN
    LET groups == elementTypesIn(typeInfo)
        r == generatePropertySchema(groups[1].type, name \o "Item")
    IN IF groups = <<>> THEN NoFirstElement
       ELSE IF IsThrow(r) THEN r
       ELSE [type |-> "$schemas",
             schemas |-> assign(<<[key |-> name,
                                   value |-> [SchemaObject EXCEPT !.type = Some("array"),
                                                                  !.items = Some(r.schema)]]>>,
                                r.subSchemas)]
  ELSE [type |-> "$schemas", schemas |-> <<>>]

\* typeInfo.types.map((t, index) => ...) from index i - 1 on
unionOptions(types, name, i, acc) ==
  IF i > Len(types) THEN acc
  ELSE LET r == generatePropertySchema(types[i], name \o "Option" \o ToString(i))
       IN IF IsThrow(r) THEN r
          ELSE unionOptions(types, name, i + 1,
                            PropertySchema(Append(acc.schema, r.schema),
                                           assign(acc.subSchemas, r.subSchemas)))

generatePropertySchema(typeInfo, name) ==
  CASE typeInfo.type = "string" -> PropertySchema([SchemaObject EXCEPT !.type = Some("string")], <<>>)
    [] typeInfo.type = "number" -> PropertySchema([SchemaObject EXCEPT !.type = Some("number")], <<>>)
    [] typeInfo.type = "boolean" -> PropertySchema([SchemaObject EXCEPT !.type = Some("boolean")], <<>>)
    [] typeInfo.type = "Date" ->
         PropertySchema([SchemaObject EXCEPT !.type = Some("string"),
                                             !.format = Some("date-time")], <<>>)
    [] typeInfo.type = "array" ->
         LET groups == elementTypesIn(typeInfo)
             r == generatePropertySchema(groups[1].type, name \o "Item")
         IN IF groups = <<>> THEN NoFirstElement
            ELSE IF IsThrow(r) THEN r
            ELSE PropertySchema([SchemaObject EXCEPT !.type = Some("array"),
                                                     !.items = Some(r.schema)],
                                r.subSchemas)
    [] typeInfo.type = "object" ->
         LET generated == generateComponentSchemas(typeInfo, name)
         IN IF IsThrow(generated) THEN generated
            ELSE PropertySchema([SchemaObject EXCEPT
                                   !.ref = Some("#/components/schemas/" \o name)],
                                generated.schemas)
    [] typeInfo.type = "enum" ->
         PropertySchema([SchemaObject EXCEPT !.type = Some("string"),
                                             !.enum = Some(typeInfo.values)], <<>>)
    [] typeInfo.type = "union" ->
         LET r == unionOptions(typeInfo.types, name, 1, PropertySchema(<<>>, <<>>))
         IN IF IsThrow(r) THEN r
            ELSE PropertySchema([SchemaObject EXCEPT !.oneOf = Some(r.schema)], r.subSchemas)
    [] typeInfo.type \in {"optional", "nullable"} ->
         LET r == generatePropertySchema(typeInfo.valueType, name)
         IN IF IsThrow(r) THEN r
            ELSE PropertySchema([r.schema EXCEPT !.nullable = Some(TRUE)], r.subSchemas)
    [] OTHER -> PropertySchema(SchemaObject, <<>>)

\* JSON.stringify of { openapi, info, servers, paths, components: { schemas } }
openapiGenerateSchema(typeInfo) ==
  LET generated == generateComponentSchemas(typeInfo, "Root")
  IN rethrown("OpenAPI",
              IF IsThrow(generated) THEN generated
              ELSE [type |-> "$document", openapi |-> "3.0.0", schemas |-> generated.schemas])

\* adapter.generateSchema(typeInfo)
generateSchema(adapter, installed, typeInfo) ==
  CASE adapter = "zod" -> zodGenerateSchema(installed, typeInfo)
    [] adapter = "joi" -> joiGenerateSchema(installed, typeInfo)
    [] adapter = "yup" -> yupGenerateSchema(installed, typeInfo)
    [] adapter = "openapi" -> openapiGenerateSchema(typeInfo)

-----------------------------------------------------------------------------
(* the values the model analyses *)

ObjectIds ==
  {"A", "B1", "B2", "SELFARR", "OUTER", "INNER", "SELFMAP", "KEYMAP", "SELFSET",
   "DEEP", "DEEP_a", "DEEP_b", "GET", "POINT", "HOLDER", "PTARR", "BIG", "MIX",
   "MAP1", "SET1", "DATE", "BADDATE", "ANON", "SHARED", "S", "SYMS", "NODE",
   "EMPTY", "CPOINT", "MYMAP", "ARR", "BARE", "SHARED2", "SHARED2_deep",
   "MAPHOLDER", "ROLES", "TWINS", "VERR", "TAGGED", "NOTAGS",
   "NODEHOLDER"}

BaseHeap ==
  [id \in ObjectIds |->
     CASE id = "A" -> Obj(<<DataProp("n", Num("1")), DataProp("p", Ref("A")),
                            DataProp("z", Str("x"))>>)
       [] id = "B1" -> Obj(<<DataProp("q", Ref("B2")), DataProp("s", Str("x"))>>)
       [] id = "B2" -> Obj(<<DataProp("back", Ref("B1")), DataProp("t", Bool("true"))>>)
       [] id = "SELFARR" -> Arr(<<Ref("SELFARR"), Num("1")>>)
       [] id = "OUTER" -> Arr(<<Ref("INNER")>>)
       [] id = "INNER" -> Arr(<<Ref("OUTER")>>)
       [] id = "SELFMAP" -> MapOf(<<[key |-> Str("k"), value |-> Ref("SELFMAP")]>>)
       [] id = "KEYMAP" -> MapOf(<<[key |-> Ref("KEYMAP"), value |-> Num("1")]>>)
       [] id = "SELFSET" -> SetOf(<<Ref("SELFSET"), Num("1")>>)
       [] id = "DEEP" -> Obj(<<DataProp("a", Ref("DEEP_a"))>>)
       [] id = "DEEP_a" -> Obj(<<DataProp("b", Ref("DEEP_b"))>>)
       [] id = "DEEP_b" -> Obj(<<DataProp("c", Num("1"))>>)
       [] id = "GET" -> Obj(<<DataProp("ok", Num("1")), ThrowingGetter("bad"),
                              Getter("computed", Num("2"), TRUE), SetterOnly("sink"),
                              HiddenProp("hidden", Str("h")),
                              DataProp("#secret", Str("s")),
                              DataProp("sub", Ref("DEEP_b"))>>)
       [] id = "POINT" -> Instance("Point", <<DataProp("x", Num("1")), DataProp("y", Num("2"))>>)
       [] id = "HOLDER" -> Obj(<<DataProp("list", Ref("PTARR")), DataProp("name", Str("x")),
                                 DataProp("get", Ref("GET"))>>)
       [] id = "PTARR" -> Arr(<<Ref("POINT")>>)
       [] id = "BIG" -> Arr(<<BigInt("1"), Str("x")>>)
       [] id = "MIX" -> Arr(<<Num("1"), Str("x"), Num("1")>>)
       [] id = "MAP1" -> MapOf(<<[key |-> Str("k"), value |-> Ref("DEEP_b")]>>)
       [] id = "SET1" -> SetOf(<<Num("1"), Ref("DEEP_b")>>)
       [] id = "DATE" -> DateOf("2024-01-01T00:00:00.000Z")
       [] id = "BADDATE" -> DateOf("invalid")
       [] id = "ANON" -> [Instance("", <<DataProp("v", Num("1"))>>) EXCEPT !.proto = "Anon.prototype"]
       [] id = "SHARED" -> Obj(<<DataProp("l", Ref("S")), DataProp("r", Ref("S"))>>)
       [] id = "S" -> Obj(<<DataProp("v", Num("1"))>>)
       [] id = "SYMS" -> [Obj(<<DataProp("own", Num("1"))>>) EXCEPT
                            !.syms = <<DataProp("tag", Str("x")),
                                       Getter("calc", Num("2"), FALSE),
                                       ThrowingGetter("boom"),
                                       DataProp(NoDescription, Ref("DEEP_b"))>>]
       [] id = "NODE" -> Instance("DataNode", <<DataProp("children", Ref("PTARR"))>>)
       [] id = "EMPTY" -> Obj(<<>>)
       [] id = "CPOINT" -> Instance("Point", <<DataProp("self", Ref("CPOINT"))>>)
       [] id = "MYMAP" -> [MapOf(<<[key |-> Str("k"), value |-> Num("1")]>>) EXCEPT
                             !.ctor = "MyMap", !.proto = "MyMap.prototype"]
       [] id = "ARR" -> Arr(<<>>)
       [] id = "BARE" -> [Obj(<<DataProp("v", Num("1"))>>) EXCEPT !.ctor = "", !.proto = "null"]
       [] id = "SHARED2" -> Obj(<<DataProp("l", Ref("S")), DataProp("deep", Ref("SHARED2_deep"))>>)
       [] id = "SHARED2_deep" -> Obj(<<DataProp("r", Ref("S"))>>)
       [] id = "MAPHOLDER" -> Obj(<<DataProp("m", Ref("MAP1")), DataProp("s", Ref("SET1"))>>)
       [] id = "ROLES" -> Arr(<<Str("admin"), Str("user")>>)
       [] id = "TWINS" -> Arr(<<Str("x"), Str("x")>>)
       [] id = "VERR" -> Instance("ValidationError",
                                  <<HiddenProp("stack", Str("trace")),
                                    HiddenProp("message", Str("Invalid input")),
                                    DataProp("name", Str("ValidationError")),
                                    DataProp("code", Str("E001"))>>)
       [] id = "TAGGED" -> Obj(<<DataProp("name", Str("x")), DataProp("tags", Ref("NOTAGS"))>>)
       [] id = "NOTAGS" -> Arr(<<>>)
       [] id = "NODEHOLDER" -> Obj(<<DataProp("n", Num("1")), DataProp("sub", Ref("NODE")),
                                     DataProp("s", Ref("S"))>>)]

Primitives ==
  {Null, Undefined, Num("1"), Num("NaN"), Str("x"), Bool("true"), BigInt("1"),
   Sym("tag"), Sym(NoDescription), Func("add"), Func("")}

Roots == Primitives \cup {Ref(id) : id \in ObjectIds \ {"ARR"}}

\* no top-level call has been made
NoValue == [k |-> "none", v |-> ""]
NoResult == [type |-> "none", path |-> <<>>]

\* no call has been made on an adapter
NoSchema ==
  [adapter |-> "none", installed |-> TRUE, data |-> NoValue, typeInfo |-> NoResult,
   out |-> [type |-> "none"]]

(* customTypes tables and analyzers by identity: "given" is the Map a caller *)
(* passes in a configuration, own[a] the new Map() of the constructor of a  *)
AnalyzerIds == {1, 2}
TableIds == {"given", "own1", "own2"}
NoTable == [type |-> "none"]
NoAnalyzer == [type |-> "none"]
NoTables == [t \in TableIds |-> NoTable]
NoAnalyzers == [a \in AnalyzerIds |-> NoAnalyzer]

(* the analyzer's state after construction *)

Configs ==
  [maxDepth : 0..MaxDepth, includeMethods : BOOLEAN, includeGettersSetters : BOOLEAN,
   includePrototype : BOOLEAN, includePrivateProps : BOOLEAN]

\* CONFIG_PRESETS.STANDARD apart from maxDepth
StandardConfigs ==
  {c \in Configs : /\ c.includeMethods /\ c.includeGettersSetters
                   /\ c.includePrototype /\ ~c.includePrivateProps}

BuiltInNames ==
  {"Date", "RegExp", "Map", "Set", "Promise", "Error",
   "Int8Array", "Uint8Array", "Uint8ClampedArray", "Int16Array", "Uint16Array",
   "Int32Array", "Uint32Array", "Float32Array", "Float64Array",
   "BigInt64Array", "BigUint64Array"}

\* registerBuiltInHandlers on the new Map() of the constructor
BuiltInTypes == [n \in BuiltInNames |-> n]

Env == [heap |-> heap, config |-> config, customTypes |-> customTypes]

\* new TypeAnalyzer(): config.maxDepth || 10 and the toggles' defaults
DefaultMaxDepth == 10
DefaultConfig ==
  [maxDepth |-> DefaultMaxDepth, includeMethods |-> TRUE, includeGettersSetters |-> TRUE,
   includePrototype |-> TRUE, includePrivateProps |-> FALSE]

\* this.analyzer of a schema adapter
AdapterEnv == [heap |-> heap, config |-> DefaultConfig, customTypes |-> BuiltInTypes]

-----------------------------------------------------------------------------
(* actions *)

\* analyzer.analyze(v)
Analyze(v) ==
  LET r == analyze(Env, v, defaultContext)
  IN /\ value' = v
     /\ result' = r.res
     /\ visited' = r.visited
     /\ givenContext' = defaultContext
     /\ UNCHANGED <<heap, config, customTypes, schema, tables, analyzers>>

\* analyzer.registerCustomType(className, handler); what an earlier call returned
\* was computed with the table as it was, so the record of that call is dropped
RegisterCustomType(className, handler) ==
  /\ customTypes' = tableSet(customTypes, className, handler)
  /\ value' = NoValue
  /\ result' = NoResult
  /\ visited' = {}
  /\ givenContext' = defaultContext
  /\ UNCHANGED <<heap, config, schema, tables, analyzers>>

\* new TypeAnalyzer(config), any configuration, values of every kind
Init ==
  /\ heap = BaseHeap
  /\ config \in Configs
  /\ customTypes = BuiltInTypes
  /\ value = NoValue
  /\ result = NoResult
  /\ visited = {}
  /\ schema = NoSchema
  /\ givenContext = defaultContext
  /\ tables = NoTables
  /\ analyzers = NoAnalyzers

Next == \E v \in Roots : Analyze(v)

Spec == Init /\ [][Next]_vars

\* analyses of the array ARR, whose elements are drawn from ArrayElements
ArrayElements == {Num("1"), Str("x"), BigInt("1"), Ref("S")}

SeqsUpTo(S, n) == UNION {[1..m -> S] : m \in 0..n}

InitArr ==
  /\ \E items \in SeqsUpTo(ArrayElements, MaxLen) :
        heap = [BaseHeap EXCEPT !["ARR"].items = items]
  /\ config \in StandardConfigs
  /\ customTypes = BuiltInTypes
  /\ value = NoValue
  /\ result = NoResult
  /\ visited = {}
  /\ schema = NoSchema
  /\ givenContext = defaultContext
  /\ tables = NoTables
  /\ analyzers = NoAnalyzers

NextArr == Analyze(Ref("ARR"))

SpecArr == InitArr /\ [][NextArr]_vars

\* an analyzer on which callers register handlers
RegisteredNames == {"Point", "Date", "Array", "Number", ""}

Registrations ==
  ({"Point"} \X CustomHandlers)
    \cup ({"Date"} \X {"leafHandler", "otherHandler"})
    \cup ({"Array", "Number", ""} \X {"leafHandler"})

RegRoots ==
  Primitives \cup {Ref(id) : id \in {"POINT", "PTARR", "HOLDER", "CPOINT", "ANON", "DATE",
                                      "BADDATE", "MIX", "BIG", "SELFARR", "A", "NODE", "MAP1"}}

InitReg ==
  /\ heap = BaseHeap
  /\ config \in StandardConfigs
  /\ customTypes = BuiltInTypes
  /\ value = NoValue
  /\ result = NoResult
  /\ visited = {}
  /\ schema = NoSchema
  /\ givenContext = defaultContext
  /\ tables = NoTables
  /\ analyzers = NoAnalyzers

NextReg ==
  \/ \E reg \in Registrations : RegisterCustomType(reg[1], reg[2])
  \/ \E v \in RegRoots : Analyze(v)

SpecReg == InitReg /\ [][NextReg]_vars

\* analyzer.analyze(v, context): the caller supplies the context, as a handler that
\* descends into its value does
AnalyzeIn(v, context) ==
  LET r == analyze(Env, v, context)
  IN /\ value' = v
     /\ result' = r.res
     /\ visited' = r.visited
     /\ givenContext' = context
     /\ UNCHANGED <<heap, config, customTypes, schema, tables, analyzers>>

ContextPaths == {<<>>, <<PKey("p")>>}
ContextVisited == {"POINT", "MAP1", "S"}
Contexts ==
  [depth : 0..(MaxDepth + 1), path : ContextPaths, visited : SUBSET ContextVisited]

ContextRegistrations ==
  {<<"Point", "leafHandler">>, <<"Point", "throwingHandler">>}

ContextRoots ==
  {Num("1")} \cup {Ref(id) : id \in {"POINT", "MAP1", "HOLDER", "SHARED"}}

InitCtx ==
  /\ heap = BaseHeap
  /\ config \in StandardConfigs
  /\ customTypes = BuiltInTypes
  /\ value = NoValue
  /\ result = NoResult
  /\ visited = {}
  /\ schema = NoSchema
  /\ givenContext = defaultContext
  /\ tables = NoTables
  /\ analyzers = NoAnalyzers

NextCtx ==
  \/ \E reg \in ContextRegistrations : RegisterCustomType(reg[1], reg[2])
  \/ \E v \in ContextRoots : \E context \in Contexts : AnalyzeIn(v, context)

SpecCtx == InitCtx /\ [][NextCtx]_vars

(* construction: analyzers that are given a customTypes table, or none *)

\* new Map()
EmptyTable == [n \in {} |-> ""]

\* the new Map() the constructor of analyzer a creates
OwnTable(a) == IF a = 1 THEN "own1" ELSE "own2"

\* a constructor that keeps its own new Map() whatever the configuration carries
constructedTable_own(a, given) == OwnTable(a)

\* { customTypes: new Map(), ...config }.customTypes: the caller's table when the
\* configuration carries one
constructedTable(a, given) == IF given = None THEN OwnTable(a) ELSE given[1]

\* for (const [type, handler] of Object.entries(builtInHandlers))
\*   this.registerCustomType(type, handler)
RECURSIVE registerBuiltInHandlers(_, _)
registerBuiltInHandlers(table, names) ==
  IF names = {} THEN table
  ELSE LET name == CHOOSE n \in names : TRUE
       IN registerBuiltInHandlers(tableSet(table, name, BuiltInTypes[name]), names \ {name})

Constructed(table) == [type |-> "analyzer", customTypes |-> table]

\* a = new TypeAnalyzer({ customTypes: given }) or new TypeAnalyzer()
Construct(a, given) ==
  /\ analyzers[a] = NoAnalyzer
  /\ LET created == [tables EXCEPT ![OwnTable(a)] = EmptyTable]
          table == constructedTable(a, given)
     IN /\ tables' = [created EXCEPT ![table] = registerBuiltInHandlers(@, BuiltInNames)]
        /\ analyzers' = [analyzers EXCEPT ![a] = Constructed(table)]
  /\ UNCHANGED <<heap, config, customTypes, value, result, visited, schema, givenContext>>

\* a.registerCustomType(className, handler)
RegisterOn(a, className, handler) ==
  /\ analyzers[a] # NoAnalyzer
  /\ tables' = [tables EXCEPT ![analyzers[a].customTypes] = tableSet(@, className, handler)]
  /\ UNCHANGED <<heap, config, customTypes, value, result, visited, schema, givenContext,
                 analyzers>>

\* the tables a caller may pass: empty, with entries under other names, with an entry
\* under a built-in name
CallerTables ==
  {EmptyTable,
   [n \in {"Point"} |-> "leafHandler"],
   [n \in {"Point", "Date"} |-> IF n = "Point" THEN "otherHandler" ELSE "leafHandler"]}

GivenTables == {None, Some("given")}

ShareRegistrations ==
  {<<"Point", "leafHandler">>, <<"Point", "otherHandler">>, <<"Date", "leafHandler">>,
   <<"Widget", "leafHandler">>}

InitShare ==
  /\ heap = BaseHeap
  /\ config = DefaultConfig
  /\ customTypes = BuiltInTypes
  /\ value = NoValue
  /\ result = NoResult
  /\ visited = {}
  /\ schema = NoSchema
  /\ givenContext = defaultContext
  /\ \E table \in CallerTables : tables = [NoTables EXCEPT !["given"] = table]
  /\ analyzers = NoAnalyzers

NextShare ==
  \/ \E a \in AnalyzerIds : \E given \in GivenTables : Construct(a, given)
  \/ \E a \in AnalyzerIds : \E reg \in ShareRegistrations : RegisterOn(a, reg[1], reg[2])

SpecShare == InitShare /\ [][NextShare]_vars

(* calls on the schema adapters *)

Adapters == {"zod", "joi", "yup", "openapi"}

\* validateDependencies(): the OpenAPI adapter needs no library
Installations(adapter) == IF adapter = "openapi" THEN {TRUE} ELSE BOOLEAN

\* adapter.generateSchema(typeInfo)
GenerateSchema(adapter, installed, typeInfo) ==
  /\ schema' = [adapter |-> adapter, installed |-> installed, data |-> NoValue,
                typeInfo |-> typeInfo, out |-> generateSchema(adapter, installed, typeInfo)]
  /\ UNCHANGED <<heap, config, customTypes, value, result, visited, givenContext, tables, analyzers>>

\* adapter.generateSchemaFromData(data): the adapter analyzes with its own analyzer
GenerateSchemaFromData(adapter, installed, data) ==
  /\ schema' =
        IF ~installed
          THEN [adapter |-> adapter, installed |-> installed, data |-> data,
                typeInfo |-> NoResult,
                out |-> CASE adapter = "zod" -> NotInstalled("Zod", "zod")
                          [] adapter = "joi" -> NotInstalled("Joi", "joi")
                          [] adapter = "yup" -> NotInstalled("Yup", "yup")]
          ELSE LET typeInfo == analyze(AdapterEnv, data, defaultContext).res
               IN [adapter |-> adapter, installed |-> installed, data |-> data,
                   typeInfo |-> typeInfo,
                   out |-> generateSchema(adapter, installed, typeInfo)]
  /\ UNCHANGED <<heap, config, customTypes, value, result, visited, givenContext, tables, analyzers>>

\* descriptions written by hand: a tag no emitter knows, a few it knows, and both nested
UnknownTags == {"bigint", "function", "circular-reference", "tuple"}
KnownLeaves ==
  {[type |-> "string"], [type |-> "number"], [type |-> "Date"],
   [type |-> "enum", values |-> <<"a", "b">>]}
Leaves == {[type |-> tag] : tag \in UnknownTags} \cup KnownLeaves

ObjectWith(t) ==
  [type |-> "object", properties |-> <<[key |-> "a", value |-> [type |-> "string"]],
                                       [key |-> "u", value |-> t]>>]
GroupOf(t, indices) ==
  [type |-> t, frequency |-> [num |-> Len(indices), den |-> 2], count |-> Len(indices),
   indices |-> indices]
ArrayOf(t) == [type |-> "array", length |-> 2, elementTypes |-> <<GroupOf(t, <<0, 1>>)>>]
ArrayOfTwo(t) ==
  [type |-> "array", length |-> 2,
   elementTypes |-> <<GroupOf(t, <<0>>), GroupOf([type |-> "string"], <<1>>)>>]
UnionWith(t) == [type |-> "union", types |-> <<t, [type |-> "string"]>>]
OptionalOf(t) == [type |-> "optional", valueType |-> t]
NullableOf(t) == [type |-> "nullable", valueType |-> t]

TypeInfos ==
  Leaves \cup {ObjectWith(t) : t \in Leaves} \cup {ArrayOf(t) : t \in Leaves}
         \cup {ArrayOfTwo(t) : t \in Leaves} \cup {UnionWith(t) : t \in Leaves}
         \cup {OptionalOf(t) : t \in Leaves} \cup {NullableOf(t) : t \in Leaves}
         \cup {ObjectWith(ObjectWith(t)) : t \in Leaves}

EmitRoots ==
  {Null, Undefined, Num("1"), Str("x"), Bool("true"), BigInt("1"), Sym("tag"), Func("add")}
    \cup {Ref(id) : id \in {"A", "GET", "HOLDER", "MIX", "PTARR", "DEEP", "EMPTY", "DATE",
                              "MAP1", "SET1", "POINT", "BIG", "ARR", "MAPHOLDER",
                              "ROLES", "TWINS", "TAGGED"}}

InitEmit ==
  /\ heap = BaseHeap
  /\ config = DefaultConfig
  /\ customTypes = BuiltInTypes
  /\ value = NoValue
  /\ result = NoResult
  /\ visited = {}
  /\ schema = NoSchema
  /\ givenContext = defaultContext
  /\ tables = NoTables
  /\ analyzers = NoAnalyzers

NextEmit ==
  \/ \E adapter \in Adapters : \E installed \in Installations(adapter) :
        \E typeInfo \in TypeInfos : GenerateSchema(adapter, installed, typeInfo)
  \/ \E adapter \in Adapters : \E installed \in Installations(adapter) :
        \E data \in EmitRoots : GenerateSchemaFromData(adapter, installed, data)

SpecEmit == InitEmit /\ [][NextEmit]_vars

-----------------------------------------------------------------------------
(* reading a result tree *)

\* the results nested directly inside r
children(r) ==
  CASE r.type = "array" -> [i \in 1..Len(r.elementTypes) |-> r.elementTypes[i].type]
    [] r.type = "object" ->
         [i \in 1..Len(r.properties) |-> r.properties[i].value]
           \o (IF r.symbolProperties = None THEN <<>>
               ELSE [i \in 1..Len(r.symbolProperties[1]) |-> r.symbolProperties[1][i].value])
    [] r.type = "Map" ->
         IF r.entries = None THEN <<>>
         ELSE [i \in 1..Len(r.entries[1]) |-> r.entries[1][i].key]
                \o [i \in 1..Len(r.entries[1]) |-> r.entries[1][i].value]
    [] r.type = "Set" -> IF r.values = None THEN <<>> ELSE r.values[1]
    [] OTHER -> <<>>

\* every (parent, child) pair of the tree under r, r being at depth d
RECURSIVE edgesOf(_, _)
edgesOf(r, d) ==
  LET cs == children(r)
  IN UNION {{[parent |-> r, child |-> cs[i], depth |-> d + 1]} \cup edgesOf(cs[i], d + 1)
              : i \in 1..Len(cs)}

Edges == IF result.type = "none" THEN {} ELSE edgesOf(result, 0)

\* the entry of an object result under key
HasProp(r, key) ==
  r.type = "object" /\ \E i \in 1..Len(r.properties) : r.properties[i].key = key
propAt(r, key) ==
  r.properties[CHOOSE i \in 1..Len(r.properties) : r.properties[i].key = key].value

\* the description an array result gives for the element at index
HasElement(r, index) ==
  r.type = "array" /\ \E i \in 1..Len(r.elementTypes) :
                         \E j \in 1..Len(r.elementTypes[i].indices) :
                            r.elementTypes[i].indices[j] = index
groupOf(r, index) ==
  r.elementTypes[CHOOSE i \in 1..Len(r.elementTypes) :
                    \E j \in 1..Len(r.elementTypes[i].indices) :
                       r.elementTypes[i].indices[j] = index]
elementAt(r, index) == groupOf(r, index).type

Range(seq) == {seq[i] : i \in 1..Len(seq)}

-----------------------------------------------------------------------------
(* C1: an array whose elements have two distinct shapes, occurring a and b  *)
(* times, gets exactly two groups with counts a and b, frequencies a/N and  *)
(* b/N, each listing the indices of its shape, by descending count.         *)

IndicesOf(items, val) == {i - 1 : i \in {j \in 1..Len(items) : items[j] = val}}

C1_TwoShapesTwoGroups ==
  LET items == heap["ARR"].items
      N == Len(items)
  IN (/\ value = Ref("ARR")
      /\ config.maxDepth >= 1
      /\ Range(items) \subseteq {Num("1"), Str("x")}
      /\ Cardinality(Range(items)) = 2)
     => /\ result.type = "array"
        /\ Len(result.elementTypes) = 2
        /\ result.elementTypes[1].count >= result.elementTypes[2].count
        /\ \A val \in Range(items) :
              \E i \in 1..2 :
                 LET g == result.elementTypes[i]
                 IN /\ g.type.type = typeof(val)
                    /\ Range(g.indices) = IndicesOf(items, val)
                    /\ g.count = Cardinality(IndicesOf(items, val))
                    /\ g.frequency = [num |-> g.count, den |-> N]

-----------------------------------------------------------------------------
(* C2: an object reachable from itself through its own properties: the      *)
(* re-encounter is a circular-reference at the re-encountering property's   *)
(* path, and the other properties on the cycle are analyzed normally.       *)

At(path) == [path |-> path]

\* A.p = A, with n and z beside it
DirectCycleReported ==
  /\ result.type = "object"
  /\ propAt(result, "p") = circularReference(At(<<PKey("p")>>))
  /\ propAt(result, "n") = handlePrimitive(Num("1"), At(<<PKey("n")>>))
  /\ propAt(result, "z") = handlePrimitive(Str("x"), At(<<PKey("z")>>))

\* B1.q = B2 and B2.back = B1, with s and t beside them
IndirectCycleReported ==
  /\ result.type = "object"
  /\ propAt(result, "s") = handlePrimitive(Str("x"), At(<<PKey("s")>>))
  /\ propAt(result, "q").type = "object"
  /\ propAt(propAt(result, "q"), "back") = circularReference(At(<<PKey("q"), PKey("back")>>))
  /\ propAt(propAt(result, "q"), "t") =
        handlePrimitive(Bool("true"), At(<<PKey("q"), PKey("t")>>))

\* C2 as stated: the re-encounter is a circular-reference at every maxDepth
C2_CycleAlwaysCircular ==
  /\ value = Ref("A") => DirectCycleReported
  /\ value = Ref("B1") => IndirectCycleReported

\* C2 as amended: when the re-encountering property is no deeper than maxDepth
C2_CycleWithinDepth ==
  /\ (value = Ref("A") /\ config.maxDepth >= 1) => DirectCycleReported
  /\ (value = Ref("B1") /\ config.maxDepth >= 2) => IndirectCycleReported
  /\ (value = Ref("A") /\ config.maxDepth = 0)
        => propAt(result, "p") = maxDepthReached(At(<<PKey("p")>>))
  /\ (value = Ref("B1") /\ config.maxDepth = 1)
        => propAt(propAt(result, "q"), "back") =
              maxDepthReached(At(<<PKey("q"), PKey("back")>>))

C2_Witness ==
  /\ value = Ref("B1")
  /\ config.maxDepth >= 2
  /\ propAt(propAt(result, "q"), "back").type = "circular-reference"

-----------------------------------------------------------------------------
(* C3: an array that contains itself, or a Map or Set that contains itself  *)
(* as key, value or member: the re-encounter is a circular-reference at the *)
(* re-encountered path.                                                     *)

C3_SelfContainingCircular ==
  /\ (value = Ref("SELFARR") /\ config.maxDepth >= 1)
        => /\ HasElement(result, 0)
           /\ elementAt(result, 0) = circularReference(At(<<PIdx(0)>>))
  /\ (value = Ref("OUTER") /\ config.maxDepth >= 2)
        => /\ HasElement(result, 0)
           /\ HasElement(elementAt(result, 0), 0)
           /\ elementAt(elementAt(result, 0), 0).type = "circular-reference"
  /\ (value = Ref("SELFMAP") /\ config.maxDepth >= 1)
        => /\ result.type = "Map"
           /\ result.entries # None
           /\ result.entries[1][1].value.type = "circular-reference"
  /\ (value = Ref("KEYMAP") /\ config.maxDepth >= 1)
        => /\ result.type = "Map"
           /\ result.entries # None
           /\ result.entries[1][1].key.type = "circular-reference"
  /\ (value = Ref("SELFSET") /\ config.maxDepth >= 1)
        => /\ result.type = "Set"
           /\ result.values # None
           /\ result.values[1][1].type = "circular-reference"

-----------------------------------------------------------------------------
(* C4: in the result of a top-level call with maxDepth D, no node at depth  *)
(* <= D is a max-depth-reached marker, every node at depth D+1 is a marker  *)
(* carrying only type and path, and there is no node deeper than D+1.       *)

IsMarker(r) == r.type = "max-depth-reached" /\ DOMAIN r = {"type", "path"}

\* C4 as stated: the nodes at depth D+1 are exactly the max-depth-reached markers
C4_MarkersExactlyBelowMaxDepth ==
  /\ result.type # "max-depth-reached"
  /\ \A e \in Edges :
        /\ e.depth <= config.maxDepth + 1
        /\ e.depth <= config.maxDepth => e.child.type # "max-depth-reached"
        /\ e.depth = config.maxDepth + 1 => IsMarker(e.child)

\* an entry handleObject writes without calling analyze: the accessor variant, or
\* the error variant of a member whose read raised
IsUnanalyzedMember(e) ==
  /\ e.parent.type = "object"
  /\ \/ e.child.type = "accessor"
     \/ e.child.type = "error" /\ e.child.error = errorText(GetterError)

\* C4 as amended: at depth D+1, a marker or a member entry written without a descent
C4_MarkersOrUnanalyzedMembers ==
  /\ result.type # "max-depth-reached"
  /\ \A e \in Edges :
        /\ e.depth <= config.maxDepth + 1
        /\ e.depth <= config.maxDepth => e.child.type # "max-depth-reached"
        /\ e.depth = config.maxDepth + 1 => IsMarker(e.child) \/ IsUnanalyzedMember(e)

\* maxDepth = 1 on {a: {b: {c: 1}}}: a is analyzed, a.b is a marker
C4_Witness ==
  /\ value = Ref("DEEP")
  /\ config.maxDepth = 1
  /\ propAt(result, "a").type = "object"
  /\ propAt(propAt(result, "a"), "b") = maxDepthReached(At(<<PKey("a"), PKey("b")>>))

-----------------------------------------------------------------------------
(* C5: each nested result's path is its parent result's path with exactly   *)
(* one key or index appended.                                               *)

ExtendsByOne(parentPath, childPath) ==
  /\ Len(childPath) = Len(parentPath) + 1
  /\ SubSeq(childPath, 1, Len(parentPath)) = parentPath

\* C5: every nested description's path is its parent's path plus one key or index
C5_ChildPathExtendsParent ==
  \A e \in Edges : ExtendsByOne(e.parent.path, e.child.path)

-----------------------------------------------------------------------------
(* C6: when reading one own member of a generic object raises, that         *)
(* member's entry is an error variant at the object's path plus the member  *)
(* name, and every other member gets the result it would get if the failing *)
(* member were absent.                                                      *)

withoutMember(h, id, name) ==
  [h EXCEPT ![id].props = SelectSeq(@, LAMBDA p : p.name # name)]
withoutSymbol(h, id, name) ==
  [h EXCEPT ![id].syms = SelectSeq(@, LAMBDA p : p.name # name)]

entriesWithout(entries, key) == SelectSeq(entries, LAMBDA e : e.key # key)

GetterFailedAt(path) == [type |-> "error", error |-> "getter failed", path |-> path]

-----------------------------------------------------------------------------
(* C7: a failure confined to one array element never turns the whole array  *)
(* into an error variant: an array with a bigint element next to other      *)
(* elements is an array variant that describes the bigint and the others.   *)

C7_BigIntElementKeepsArray ==
  (value = Ref("BIG") /\ config.maxDepth >= 1)
     => /\ result.type = "array"
        /\ HasElement(result, 0)
        /\ elementAt(result, 0) = handlePrimitive(BigInt("1"), At(<<PIdx(0)>>))
        /\ HasElement(result, 1)
        /\ elementAt(result, 1) = handlePrimitive(Str("x"), At(<<PIdx(1)>>))

-----------------------------------------------------------------------------
(* C8: analyze never propagates an exception: when the handler selected for *)
(* a value raises, the call returns an error variant with the error message *)
(* and the path of the node being analyzed.                                 *)

ErrorAt(message, path) == [type |-> "error", error |-> message, path |-> path]

\* C8: an exception raised while a node is analyzed becomes an error variant at that node's path
C8_ExceptionsBecomeErrorVariants ==
  /\ ~IsThrow(result)
  /\ \A e \in Edges : ~IsThrow(e.child)
  \* a built-in named-composite handler raises
  /\ (value = Ref("BADDATE") /\ tableGet(customTypes, "Date") = "Date")
        => result = ErrorAt("Invalid time value", <<>>)
  \* a caller's handler raises an Error, or a string
  /\ (value = Ref("POINT") /\ tableGet(customTypes, "Point") = "throwingHandler")
        => result = ErrorAt("handler failed", <<>>)
  /\ (value = Ref("POINT") /\ tableGet(customTypes, "Point") = "stringThrower")
        => result = ErrorAt("thrown text", <<>>)
  /\ (value = Ref("PTARR") /\ tableGet(customTypes, "Point") = "throwingHandler"
        /\ config.maxDepth >= 1)
        => /\ HasElement(result, 0)
           /\ elementAt(result, 0) = ErrorAt("handler failed", <<PIdx(0)>>)
  \* a baseline handler raises: handleArray, handleObject
  /\ (value = Ref("BIG") /\ config.maxDepth >= 1)
        => result = ErrorAt("Do not know how to serialize a BigInt", <<>>)
  /\ (value = Ref("NODE") /\ config.includePrototype /\ config.includeMethods)
        => result = ErrorAt("prototype member failed", <<>>)

C8_Witness ==
  /\ value = Ref("PTARR")
  /\ tableGet(customTypes, "Point") = "throwingHandler"
  /\ HasElement(result, 0)
  /\ elementAt(result, 0).type = "error"

-----------------------------------------------------------------------------
(* C9: after registerCustomType(name, h), a non-array object whose          *)
(* constructor name is name and that is not in the visited set is analyzed  *)
(* to exactly h's output for (value, current context), at the root and at   *)
(* any nested position.                                                     *)

ReturningHandlers == {"leafHandler", "otherHandler"}

\* the handler registered for the class of the object id, when it is one that returns
registeredFor(id) == tableGet(customTypes, heap[id].ctor)

RootOutput(id) ==
  (value = Ref(id) /\ registeredFor(id) \in ReturningHandlers)
     => result = customHandlerOutput(registeredFor(id), id, defaultContext)

\* POINT as PTARR[0] (depth 1) and as HOLDER.list[0] (depth 2), in the calls in which
\* analyze is applied to POINT and depth 1 is no deeper than minDepth allows
NestedOutput(minDepth) ==
  /\ (value = Ref("PTARR") /\ registeredFor("POINT") \in ReturningHandlers
        /\ config.maxDepth >= minDepth)
        => /\ HasElement(result, 0)
           /\ elementAt(result, 0) =
                 customHandlerOutput(registeredFor("POINT"), "POINT", At(<<PIdx(0)>>))
  /\ (value = Ref("HOLDER") /\ registeredFor("POINT") \in ReturningHandlers
        /\ config.maxDepth >= minDepth + 1)
        => /\ HasElement(propAt(result, "list"), 0)
           /\ elementAt(propAt(result, "list"), 0) =
                 customHandlerOutput(registeredFor("POINT"), "POINT",
                                     At(<<PKey("list"), PIdx(0)>>))

ClassInstances == {"POINT", "CPOINT", "DATE", "BADDATE", "ANON"}

\* C9 as stated: the handler's output under any name, at any position
C9_HandlerOutputEverywhere ==
  /\ \A id \in ClassInstances : RootOutput(id)
  /\ NestedOutput(0)

\* C9 as amended: a non-empty name, a position no deeper than maxDepth
C9_HandlerOutputWithinDepth ==
  /\ \A id \in ClassInstances : heap[id].ctor # "" => RootOutput(id)
  /\ NestedOutput(1)
  /\ (value = Ref("ANON") /\ registeredFor("ANON") \in ReturningHandlers)
        => result.type = "object"
  /\ (value = Ref("PTARR") /\ registeredFor("POINT") \in ReturningHandlers
        /\ config.maxDepth = 0)
        => elementAt(result, 0) = maxDepthReached(At(<<PIdx(0)>>))

C9_Witness ==
  /\ value = Ref("HOLDER")
  /\ config.maxDepth >= 2
  /\ registeredFor("POINT") = "otherHandler"
  /\ elementAt(propAt(result, "list"), 0).type = "custom"

-----------------------------------------------------------------------------
(* C10: registering a custom handler under any name never changes how null, *)
(* undefined, a primitive, a symbol, a function or an array is analyzed:    *)
(* they go to their baseline handlers before the table is consulted.        *)

\* the objects reachable from the object id through members, elements and entries
refsOf(obj) ==
  {v.v : v \in {x \in ({obj.props[i].val : i \in 1..Len(obj.props)}
                        \cup {obj.syms[i].val : i \in 1..Len(obj.syms)}
                        \cup Range(obj.items)
                        \cup {obj.entries[i].key : i \in 1..Len(obj.entries)}
                        \cup {obj.entries[i].value : i \in 1..Len(obj.entries)})
                  : x.k = "ref"}}

RECURSIVE reachableFrom(_)
reachableFrom(ids) ==
  LET more == ids \cup UNION {refsOf(heap[id]) : id \in ids}
  IN IF more = ids THEN ids ELSE reachableFrom(more)

\* the names under which callers have registered
customNames == {n \in DOMAIN customTypes : customTypes[n] \in CustomHandlers}

IsArrayValue(val) == val.k = "ref" /\ heap[val.v].isArray

-----------------------------------------------------------------------------
(* C11: registerCustomType(n, h1) followed by registerCustomType(n, h2):    *)
(* analyzing an instance of class n returns h2's output; a registration     *)
(* made after construction under a built-in name such as Date replaces the  *)
(* built-in handler.                                                        *)

\* the analyzer as the step leaves it
EnvAfter == [heap |-> heap', config |-> config', customTypes |-> customTypes']

\* the name already has a handler: the built-in one, or one a caller registered
HasHandler(name) == tableGet(customTypes, name) # ""

\* what the next analysis of the instances of class reg[1] returns once reg[2] has been
\* registered under a name that already had a handler
LaterRegistrationDecides(reg) ==
  (/\ RegisterCustomType(reg[1], reg[2])
   /\ HasHandler(reg[1])
   /\ reg[2] \in ReturningHandlers)
     => \A id \in ClassInstances :
           heap[id].ctor = reg[1]
              => analyze(EnvAfter, Ref(id), defaultContext).res
                    = customHandlerOutput(reg[2], id, defaultContext)

\* C11 as stated: under any name n
C11_LaterRegistrationAnyName ==
  [][\A reg \in Registrations : LaterRegistrationDecides(reg)]_vars

\* C11 as amended: under a non-empty name n, for the non-array objects of class n
C11_LaterRegistrationWins ==
  [][\A reg \in Registrations : reg[1] # "" => LaterRegistrationDecides(reg)]_vars

\* the built-in Date handler was replaced, and a Date is analyzed by the replacement
C11_Witness ==
  /\ value = Ref("DATE")
  /\ tableGet(customTypes, "Date") = "otherHandler"
  /\ result = customHandlerOutput("otherHandler", "DATE", defaultContext)

-----------------------------------------------------------------------------
(* C12: two successive top-level analyze calls without an explicit context, *)
(* on the same value, with the same analyzer and registry, return equal     *)
(* results: the second call starts from its own empty visited set.          *)

-----------------------------------------------------------------------------
(* C13: for every finite value graph, cyclic or not, and every maxDepth, a  *)
(* top-level analyze call terminates and returns a result: every nested     *)
(* call is one level deeper than its caller, no call is made deeper than    *)
(* maxDepth + 1, and each call makes at most one nested call per member.    *)

RECURSIVE sumOf(_)
sumOf(ns) == IF ns = <<>> THEN 0 ELSE Head(ns) + sumOf(Tail(ns))

\* the number of descriptions in the tree under r
RECURSIVE nodeCount(_)
nodeCount(r) ==
  LET cs == children(r)
  IN 1 + sumOf([i \in 1..Len(cs) |-> nodeCount(cs[i])])

\* the number of values an object holds directly
fanout(obj) == Len(obj.props) + Len(obj.syms) + Len(obj.items) + 2 * Len(obj.entries)

MaxFanout == CHOOSE n \in 0..64 :
               /\ \A id \in ObjectIds : fanout(heap[id]) <= n
               /\ \E id \in ObjectIds : fanout(heap[id]) = n

RECURSIVE power(_, _)
power(b, e) == IF e = 0 THEN 1 ELSE b * power(b, e - 1)

\* the calls a descent of at most D + 1 levels can make
CallBound(D) == sumOf([d \in 1..(D + 2) |-> power(MaxFanout, d - 1)])

\* C13: every top-level call returns a description, and the tree of calls is bounded
C13_AnalyzeTerminates ==
  value # NoValue
     => /\ result.type # "none"
        /\ ~IsThrow(result)
        /\ \A e \in Edges : e.depth <= config.maxDepth + 1
        /\ nodeCount(result) <= CallBound(config.maxDepth)

\* a self-containing array, described down to the bound
C13_Witness ==
  /\ value = Ref("SELFARR")
  /\ config.maxDepth >= 2
  /\ result.type = "array"
  /\ HasElement(result, 0)
  /\ elementAt(result, 0).type = "array"
  /\ elementAt(elementAt(result, 0), 0).type = "array"

-----------------------------------------------------------------------------
(* C14: for every array of length N the counts of the groups of             *)
(* elementTypes sum to N, each count is the length of the group's indices,  *)
(* each frequency is count / N, and the index lists are pairwise disjoint   *)
(* and cover 0..N-1; for N = 0 elementTypes is empty.                       *)

GroupsPartition(groups, N) ==
  /\ sumOf([i \in 1..Len(groups) |-> groups[i].count]) = N
  /\ \A i \in 1..Len(groups) :
        /\ groups[i].count = Len(groups[i].indices)
        /\ groups[i].frequency = [num |-> groups[i].count, den |-> N]
        /\ Cardinality(Range(groups[i].indices)) = Len(groups[i].indices)
  /\ \A i, j \in 1..Len(groups) :
        i # j => Range(groups[i].indices) \cap Range(groups[j].indices) = {}
  /\ UNION {Range(groups[i].indices) : i \in 1..Len(groups)} = 0..(N - 1)
  /\ N = 0 => groups = <<>>

\* C14: the groups of every analyzed array partition its indices
C14_GroupsPartitionIndices ==
  value = Ref("ARR")
     => /\ result.type = "array"
        /\ result.length = Len(heap["ARR"].items)
        /\ GroupsPartition(result.elementTypes, Len(heap["ARR"].items))

-----------------------------------------------------------------------------
(* C15: elementTypes is sorted by non-increasing count, and groups of equal *)
(* count keep the order in which their first elements were encountered.     *)

IsOrdered(groups) ==
  \A i, j \in 1..Len(groups) :
     i < j => /\ groups[i].count >= groups[j].count
              /\ groups[i].count = groups[j].count
                    => groups[i].indices[1] < groups[j].indices[1]

\* a typeMap whose i-th group was first met at index i - 1 and has counts[i] elements
typeMapOf(counts) ==
  [i \in 1..Len(counts) |->
     [key |-> i, type |-> handleUndefined(Undefined, At(<<PIdx(i - 1)>>)),
      count |-> counts[i],
      indices |-> [k \in 1..counts[i] |-> (i - 1) + (k - 1) * Len(counts)]]]

\* the sort, on every typeMap of up to MaxLen groups of up to MaxCount elements
SortIsStableDescending ==
  \A counts \in SeqsUpTo(1..MaxCount, MaxLen) :
     LET sorted == elementTypesOf(typeMapOf(counts), sumOf(counts))
     IN /\ IsOrdered(sorted)
        /\ Len(sorted) = Len(counts)
        /\ {g.indices : g \in Range(sorted)} = {g.indices : g \in Range(typeMapOf(counts))}
        /\ \A g \in Range(sorted) : g.count = Len(g.indices)

\* C15: every elementTypes list is in descending count order, ties in encounter order
C15_GroupsByCountThenFirstIndex ==
  /\ SortIsStableDescending
  /\ (value = Ref("ARR") /\ result.type = "array") => IsOrdered(result.elementTypes)
  /\ \A e \in Edges : e.child.type = "array" => IsOrdered(e.child.elementTypes)

\* three elements, three groups, in index order
C15_Witness ==
  /\ value = Ref("ARR")
  /\ result.type = "array"
  /\ Len(result.elementTypes) = 3
  /\ result.elementTypes[1].indices = <<0>>
  /\ result.elementTypes[3].indices = <<2>>

-----------------------------------------------------------------------------
(* C16: a Map or Set analyzed at depth d < maxDepth lists one description   *)
(* per entry or member, in iteration order, each analyzed at depth d + 1;   *)
(* at depth d >= maxDepth the list is absent and no max-depth-reached       *)
(* marker stands for the contents; size is reported in both cases.          *)

\* every description of the result with its depth
Nodes ==
  IF result.type = "none" THEN {}
  ELSE {[node |-> result, depth |-> 0]} \cup {[node |-> e.child, depth |-> e.depth] : e \in Edges}

\* the context in which the contents of a Map or Set at the root are analyzed
ContentsContext == [depth |-> 1, path |-> <<>>, visited |-> {}]

\* C16: the contents of a Map or Set are listed exactly when it lies above maxDepth
C16_MapSetContentsBelowMaxDepth ==
  /\ \A n \in Nodes :
        /\ n.node.type = "Map"
              => /\ n.node.entries # None <=> n.depth < config.maxDepth
                 /\ n.node.entries # None => Len(n.node.entries[1]) = n.node.size
        /\ n.node.type = "Set"
              => /\ n.node.values # None <=> n.depth < config.maxDepth
                 /\ n.node.values # None => Len(n.node.values[1]) = n.node.size
  /\ \A e \in Edges :
        e.parent.type \in {"Map", "Set"} => e.child.type # "max-depth-reached"
  /\ value \in {Ref("MAP1"), Ref("KEYMAP"), Ref("SELFMAP")}
        => /\ result.type = "Map"
           /\ result.size = Len(heap[value.v].entries)
           /\ config.maxDepth >= 1
                 => \A i \in 1..result.size :
                       /\ result.entries[1][i].key =
                             analyze(Env, heap[value.v].entries[i].key, ContentsContext).res
                       /\ result.entries[1][i].value =
                             analyze(Env, heap[value.v].entries[i].value, ContentsContext).res
  /\ value \in {Ref("SET1"), Ref("SELFSET")}
        => /\ result.type = "Set"
           /\ result.size = Len(heap[value.v].items)
           /\ config.maxDepth >= 1
                 => \A i \in 1..result.size :
                       result.values[1][i] =
                          analyze(Env, heap[value.v].items[i], ContentsContext).res
  \* members 1 and {c: 1} of a Set at depth 0: c is at depth 2
  /\ (value = Ref("SET1") /\ config.maxDepth = 1)
        => /\ result.values[1][1].type = "number"
           /\ propAt(result.values[1][2], "c").type = "max-depth-reached"
  \* a Map and a Set at depth 1
  /\ (value = Ref("MAPHOLDER") /\ config.maxDepth = 1)
        => /\ propAt(result, "m") =
                 [type |-> "Map", size |-> 1, entries |-> None, path |-> <<PKey("m")>>]
           /\ propAt(result, "s") =
                 [type |-> "Set", size |-> 2, values |-> None, path |-> <<PKey("s")>>]
  /\ (value = Ref("MAPHOLDER") /\ config.maxDepth >= 2)
        => /\ propAt(result, "m").entries # None
           /\ propAt(result, "m").entries[1][1].key.type = "string"
           /\ propAt(result, "m").entries[1][1].value.type = "object"
           /\ propAt(result, "s").values # None
           /\ propAt(result, "s").values[1][1].type = "number"

\* a Map inside itself: listed at depth 0, cut at depth 1 = maxDepth
C16_Witness ==
  /\ value = Ref("SELFMAP")
  /\ config.maxDepth = 1
  /\ result.entries # None
  /\ result.entries[1][1].value.type = "Map"
  /\ result.entries[1][1].value.entries = None
  /\ result.entries[1][1].value.size = 1

-----------------------------------------------------------------------------
(* C17: with includeGettersSetters set, every own string-keyed member the   *)
(* scan lists that is defined by a getter and/or setter yields an accessor  *)
(* result with hasGetter and hasSetter as in the descriptor, at the         *)
(* object's path plus the name, and the getter is not invoked; without      *)
(* includeGettersSetters the getter is invoked and what it returns is       *)
(* analyzed one level deeper.                                               *)

AccessorAt(hasGetter, hasSetter, path) ==
  [type |-> "accessor", hasGetter |-> hasGetter, hasSetter |-> hasSetter, path |-> path]

\* the accessor members of GET, as members of an object at path
AccessorsReported(r, path) ==
  /\ r.type = "object"
  /\ propAt(r, "computed") = AccessorAt(TRUE, TRUE, Append(path, PKey("computed")))
  /\ propAt(r, "bad") = AccessorAt(TRUE, FALSE, Append(path, PKey("bad")))
  /\ propAt(r, "sink") = AccessorAt(FALSE, TRUE, Append(path, PKey("sink")))

\* the heap in which the getter of id.name returns val, or raises
withGetterReturning(h, id, name, val) ==
  [h EXCEPT ![id].props =
     [i \in 1..Len(@) |-> IF @[i].name = name THEN [@[i] EXCEPT !.get = "returns", !.val = val]
                          ELSE @[i]]]
withGetterThrowing(h, id, name) ==
  [h EXCEPT ![id].props =
     [i \in 1..Len(@) |-> IF @[i].name = name THEN [@[i] EXCEPT !.get = "throws"] ELSE @[i]]]

\* C17: accessor members are reported without a read when includeGettersSetters is set,
\* and read and analyzed when it is not
C17_AccessorsReportedNotInvoked ==
  /\ (value = Ref("GET") /\ config.includeGettersSetters)
        => /\ AccessorsReported(result, <<>>)
           \* what the getters would return or raise has no influence on the result
           /\ result = analyze([Env EXCEPT !.heap = withGetterReturning(heap, "GET", "bad", Ref("A"))],
                               value, defaultContext).res
           /\ result = analyze([Env EXCEPT !.heap = withGetterThrowing(heap, "GET", "computed")],
                               value, defaultContext).res
  /\ (value = Ref("HOLDER") /\ config.includeGettersSetters /\ config.maxDepth >= 1)
        => AccessorsReported(propAt(result, "get"), <<PKey("get")>>)
  /\ (value = Ref("GET") /\ ~config.includeGettersSetters)
        => /\ propAt(result, "computed") =
                 (IF config.maxDepth >= 1
                    THEN handlePrimitive(Num("2"), At(<<PKey("computed")>>))
                    ELSE maxDepthReached(At(<<PKey("computed")>>)))
           /\ propAt(result, "bad") = GetterFailedAt(<<PKey("bad")>>)
           /\ propAt(result, "computed") #
                 propAt(analyze([Env EXCEPT !.heap =
                                    withGetterReturning(heap, "GET", "computed", Str("other"))],
                                value, defaultContext).res, "computed")
                 \/ config.maxDepth = 0
  \* a member the scan does not list is not reported at all
  /\ value = Ref("GET") => (HasProp(result, "hidden") <=> config.includePrivateProps)

C17_Witness ==
  /\ value = Ref("GET")
  /\ config.includeGettersSetters
  /\ config.maxDepth >= 1
  /\ propAt(result, "bad").type = "accessor"
  /\ propAt(result, "ok").type = "number"

-----------------------------------------------------------------------------
(* C18: in the description of a generic object the prototype field is       *)
(* present iff includePrototype is set and the object's prototype is        *)
(* neither null nor Object.prototype, and symbolProperties is present iff   *)
(* the object has a symbol-keyed own property; {} yields type object,       *)
(* constructor Object, no properties and neither field under every preset.  *)

\* the objects analyze hands to the generic object handler
GenericObjects == {id \in ObjectIds : ~heap[id].isArray /\ customHandlerOf(Env, id) = ""}

\* the detail toggles of CONFIG_PRESETS.MINIMAL and CONFIG_PRESETS.STANDARD
IsMinimal(c) ==
  /\ ~c.includeMethods /\ ~c.includeGettersSetters
  /\ ~c.includePrototype /\ ~c.includePrivateProps
IsStandard(c) ==
  /\ c.includeMethods /\ c.includeGettersSetters
  /\ c.includePrototype /\ ~c.includePrivateProps

-----------------------------------------------------------------------------
(* C19: given a description whose tag the emitter does not know, at the     *)
(* root or nested as a property or as an array's element type, the Zod, Joi *)
(* and Yup emitters return their fallback text (z.any(), Joi.any(),         *)
(* yup.mixed()), the OpenAPI emitter emits an unconstrained schema for it,  *)
(* and no emitter raises.                                                   *)

\* the call generateSchema(typeInfo) on the adapter, its library being installed
Called(adapter, typeInfo) ==
  /\ schema.adapter = adapter
  /\ schema.installed
  /\ schema.typeInfo = typeInfo

\* {} in a components/schemas document
Unconstrained == SchemaObject
StringSchema == [SchemaObject EXCEPT !.type = Some("string")]

\* the document whose only component is Root
RootDocument(root) ==
  [type |-> "$document", openapi |-> "3.0.0", schemas |-> <<[key |-> "Root", value |-> root]>>]

-----------------------------------------------------------------------------
(* C20: a generic object referenced by two sibling properties of one parent *)
(* and part of no cycle: the first property in enumeration order gets the   *)
(* full description and the second gets circular-reference, since nothing   *)
(* is removed from the visited set during a top-level call.                 *)

\* the description of S = {v: 1} as the member at path
DescribesS(r, path) ==
  /\ r.type = "object"
  /\ r.path = path
  /\ r.constructor = "Object"
  /\ Len(r.properties) = 1
  /\ HasProp(r, "v")
  /\ propAt(r, "v").path = Append(path, PKey("v"))

\* SHARED = {l: S, r: S}
SiblingsReported ==
  /\ result.type = "object"
  /\ DescribesS(propAt(result, "l"), <<PKey("l")>>)
  /\ propAt(result, "r") = circularReference(At(<<PKey("r")>>))

\* SHARED2 = {l: S, deep: {r: S}}
LaterRevisitReported ==
  /\ result.type = "object"
  /\ DescribesS(propAt(result, "l"), <<PKey("l")>>)
  /\ propAt(result, "deep").type = "object"
  /\ propAt(propAt(result, "deep"), "r") = circularReference(At(<<PKey("deep"), PKey("r")>>))

\* C20 as stated: the revisit is a circular-reference at every maxDepth
C20_RevisitAlwaysCircular ==
  /\ value = Ref("SHARED") => SiblingsReported
  /\ value = Ref("SHARED2") => LaterRevisitReported

\* C20 as amended: when the visit and the revisit are no deeper than maxDepth
C20_RevisitWithinDepth ==
  /\ (value = Ref("SHARED") /\ config.maxDepth >= 1) => SiblingsReported
  /\ (value = Ref("SHARED2") /\ config.maxDepth >= 2) => LaterRevisitReported
  /\ (value = Ref("SHARED") /\ config.maxDepth = 0)
        => /\ propAt(result, "l") = maxDepthReached(At(<<PKey("l")>>))
           /\ propAt(result, "r") = maxDepthReached(At(<<PKey("r")>>))
  /\ (value = Ref("SHARED2") /\ config.maxDepth = 1)
        => /\ DescribesS(propAt(result, "l"), <<PKey("l")>>)
           /\ propAt(propAt(result, "deep"), "r") =
                 maxDepthReached(At(<<PKey("deep"), PKey("r")>>))
  \* what a call has analyzed stays in the visited set until the call returns
  /\ (value \in {Ref("SHARED"), Ref("SHARED2")} /\ config.maxDepth >= 1)
        => {value.v, "S"} \subseteq visited

C20_Witness ==
  /\ value = Ref("SHARED")
  /\ config.maxDepth >= 1
  /\ propAt(result, "l").type = "object"
  /\ propAt(result, "r").type = "circular-reference"

-----------------------------------------------------------------------------
(* C21: the visited-set check precedes the named-composite lookup: a        *)
(* non-array object that is already in context.visited and whose            *)
(* constructor name has a registered built-in or custom handler gives       *)
(* circular-reference at context.path, and the handler is not invoked.      *)

\* the last call was given a visited object whose constructor name has a handler
VisitedWithHandler ==
  /\ value.k = "ref"
  /\ ~heap[value.v].isArray
  /\ value.v \in givenContext.visited
  /\ customHandlerOf(Env, value.v) # ""

\* the marker and nothing else: no output of the handler, no error it raised, and
\* context.visited as it was
OnlyCircularReference ==
  /\ result = circularReference(givenContext)
  /\ visited = givenContext.visited

\* C21 as stated: whatever the depth of the context
C21_VisitedBeforeLookupAnyDepth == VisitedWithHandler => OnlyCircularReference

\* the element of HOLDER.list is the visited Point, two levels below the call
NestedVisitedPoint ==
  /\ value = Ref("HOLDER")
  /\ "POINT" \in givenContext.visited
  /\ customHandlerOf(Env, "POINT") # ""
  /\ givenContext.depth + 2 <= config.maxDepth

\* C21: a visited object with a registered handler, met no deeper than maxDepth, is
\* reported as circular-reference at the path of the context and its handler is not invoked
C21_VisitedBeforeLookup ==
  /\ (VisitedWithHandler /\ givenContext.depth <= config.maxDepth) => OnlyCircularReference
  /\ (VisitedWithHandler /\ givenContext.depth > config.maxDepth)
        => result = maxDepthReached(givenContext)
  /\ NestedVisitedPoint
        => elementAt(propAt(result, "list"), 0) =
              [type |-> "circular-reference",
               path |-> givenContext.path \o <<PKey("list"), PIdx(0)>>]

\* a visited Point whose registered handler would have raised
C21_Witness ==
  /\ value = Ref("POINT")
  /\ "POINT" \in givenContext.visited
  /\ tableGet(customTypes, "Point") = "throwingHandler"
  /\ givenContext.depth <= config.maxDepth
  /\ givenContext.path = <<PKey("p")>>
  /\ result = [type |-> "circular-reference", path |-> <<PKey("p")>>]

-----------------------------------------------------------------------------
(* C22: during a top-level analyze call, while the description of a         *)
(* composite value or of one of its descendants is computed, the identity   *)
(* of that value is in context.visited: for generic objects, for arrays and *)
(* for the values of named-composite handlers (Map, Set, registered         *)
(* classes) alike.                                                          *)

\* the call has described the composite value itself, by a handler of any kind
DescribedComposite == value.k = "ref" /\ result.type # "none"

\* C22: a described composite value is in context.visited; nothing is ever removed from
\* the set, so a value that is not in it after the call was not in it during the call
C22_CompositeInVisitedWhileAnalyzed == DescribedComposite => value.v \in visited

-----------------------------------------------------------------------------
(* C23: analyze never mutates the depth or the path of the context it is    *)
(* given: when a call returns the caller's depth and path are unchanged,    *)
(* every recursive descent receives a new context with depth + 1, every     *)
(* returned path is a copy that later changes do not alter, and             *)
(* context.visited is the only part a call may change, and it only grows.   *)

\* the depth of the context in which the child of edge e was described
DepthOf(e) == givenContext.depth + e.depth

\* the path of a child: the path its parent was given, with the child's own key and no
\* trace of the siblings described before it (the contents of a Map or Set are given the
\* path of the container itself)
PathFromParent(e) ==
  IF e.parent.type \in {"Map", "Set"}
    THEN e.child.path = e.parent.path
    ELSE ExtendsByOne(e.parent.path, e.child.path)

\* C23: after any call the result carries the path the context had at the call, every
\* descent was one level deeper than its parent and on the parent's own path, and
\* context.visited has kept every entry it had
C23_ContextDepthAndPathFramed ==
  value # NoValue =>
    /\ givenContext.visited \subseteq visited
    /\ result.path = givenContext.path
    /\ (result.type = "max-depth-reached") <=> (givenContext.depth > config.maxDepth)
    /\ \A e \in Edges :
          /\ PathFromParent(e)
          /\ DepthOf(e) <= config.maxDepth + 1
          /\ DepthOf(e) <= config.maxDepth => e.child.type # "max-depth-reached"
          /\ DepthOf(e) = config.maxDepth + 1 => IsMarker(e.child) \/ IsUnanalyzedMember(e)

\* a call one level down on path [p]: the siblings list, name and get each extend [p],
\* and the element of list, two levels below the call, is past maxDepth
C23_Witness ==
  /\ value = Ref("HOLDER")
  /\ givenContext = [depth |-> 1, path |-> <<PKey("p")>>, visited |-> {"S"}]
  /\ config.maxDepth = 2
  /\ visited = {"S", "HOLDER", "PTARR", "GET"}
  /\ propAt(result, "list").path = <<PKey("p"), PKey("list")>>
  /\ propAt(result, "name").path = <<PKey("p"), PKey("name")>>
  /\ elementAt(propAt(result, "list"), 0) =
        [type |-> "max-depth-reached", path |-> <<PKey("p"), PKey("list"), PIdx(0)>>]

-----------------------------------------------------------------------------
(* C24: symbol-keyed own properties are treated as string-keyed ones: with  *)
(* includeGettersSetters true, a symbol-keyed own property defined by a     *)
(* getter yields the accessor variant in symbolProperties and its getter is *)
(* not invoked during the analysis.                                         *)

\* the entry of symbolProperties under the string form of the symbol
symbolAt(r, key) ==
  r.symbolProperties[1][CHOOSE i \in 1..Len(r.symbolProperties[1]) :
                           r.symbolProperties[1][i].key = key].value

\* the symbol-keyed members of the object that a getter or a setter defines
SymbolAccessors(id) == {p \in Range(heap[id].syms) : isAccessor(p)}

\* C24: every symbol-keyed accessor of the analyzed object is reported as an accessor
\* variant, which neither holds the value its getter returns nor the error it raises
C24_SymbolAccessorsNotInvoked ==
  (value.k = "ref" /\ result.type = "object" /\ config.includeGettersSetters)
    => \A p \in SymbolAccessors(value.v) :
          /\ result.symbolProperties # None
          /\ symbolAt(result, symbolToString(p)) =
                [type |-> "accessor", hasGetter |-> p.get # "", hasSetter |-> p.set,
                 path |-> Append(result.path, PKey(symbolPathKey(p)))]

-----------------------------------------------------------------------------
(* C25: for data that is an array whose elements are all primitives of the  *)
(* same kind, such as ["admin", "user"], ZodSchemaAdapter's                 *)
(* generateSchemaFromData emits an array of that single element schema,     *)
(* z.array(z.string()), not an array of a union with one branch per         *)
(* element; a union is emitted only for elements of several types.          *)

\* the data is a non-empty array of strings, of numbers or of booleans
ElementsOfOneKind(kind) ==
  /\ schema.data.k = "ref"
  /\ heap[schema.data.v].isArray
  /\ heap[schema.data.v].items # <<>>
  /\ \A i \in 1..Len(heap[schema.data.v].items) : heap[schema.data.v].items[i].k = kind

\* C25: the Zod emitter's text for an array of primitives of one kind names that kind once
C25_OneKindOneElementSchema ==
  (schema.adapter = "zod" /\ schema.installed)
    => \A kind \in {"string", "number", "boolean"} :
          ElementsOfOneKind(kind) => schema.out = Emitted("z.array(z." \o kind \o "())")

-----------------------------------------------------------------------------
(* C26: named-composite dispatch matches the value's own constructor name   *)
(* exactly: an instance of a subclass of a built-in class (a class          *)
(* extending Error, Map or Date) whose own class name has no registered     *)
(* handler is analyzed by the generic object handler, with constructor set  *)
(* to the subclass name, not by the built-in handler of the parent class.   *)

\* the instances of a class that extends a class with a built-in handler and has no
\* handler under its own name
SubclassInstances ==
  {id \in ObjectIds : /\ SuperClass(heap[id].ctor) \in DOMAIN customTypes
                      /\ heap[id].ctor \notin DOMAIN customTypes}

keysOf(entries) == [i \in 1..Len(entries) |-> entries[i].key]

\* C26: a subclass instance gets the generic description under its own class name, with
\* its own members as properties, and not the variant of the parent's handler
C26_SubclassAnalyzedGenerically ==
  \A id \in SubclassInstances :
     value = Ref(id) =>
       /\ result.type = "object"
       /\ result.type # SuperClass(heap[id].ctor)
       /\ result.constructor = heap[id].ctor
       /\ keysOf(result.properties) =
             [i \in 1..Len(propertyNames(Env, id)) |-> propertyNames(Env, id)[i].name]
       /\ config.includePrototype => result.prototype[1].constructor = heap[id].ctor
       /\ id \in visited

\* new ValidationError("Invalid input", "E001"), the members its constructor assigns
C26_Witness ==
  /\ value = Ref("VERR")
  /\ ~config.includePrivateProps
  /\ result.type = "object"
  /\ result.constructor = "ValidationError"
  /\ keysOf(result.properties) = <<"name", "code">>
  /\ propAt(result, "code").type \in {"string", "max-depth-reached"}

-----------------------------------------------------------------------------
(* C27: in every array result each group's representative type is the       *)
(* description computed for the element at the group's first index: its     *)
(* path is the array's path followed by indices[0], and each group's        *)
(* indices list is strictly increasing.                                     *)

StrictlyIncreasing(indices) ==
  \A i, j \in 1..Len(indices) : i < j => indices[i] < indices[j]

\* the objects that are in context.visited when the element at index is analyzed: the
\* array and the objects among the elements before it (none when the elements are markers)
VisitedBefore(id, index) ==
  {id} \cup (IF config.maxDepth = 0 THEN {}
             ELSE {heap[id].items[i].v :
                     i \in {j \in 1..index : heap[id].items[j].k = "ref"}})

\* the description analyze computes for the element at index of the array id at the root
ElementDescription(id, index) ==
  analyze(Env, heap[id].items[index + 1],
          newContext(defaultContext, PIdx(index), VisitedBefore(id, index))).res

\* the table analyzeArrayElements builds when the keys of the elements are keys[1..n]:
\* the description of element i is marked by its index
typeMapOfKeys(keys) ==
  LET RECURSIVE build(_)
      build(n) ==
        IF n = 0 THEN <<>>
        ELSE typeMapAdd(build(n - 1), keys[n], [type |-> keys[n], path |-> <<PIdx(n - 1)>>], n - 1)
  IN build(Len(keys))

\* whichever elements share a key, a group keeps the description of its first element
\* and lists the indices in the order of the elements
FirstElementRepresents ==
  \A keys \in SeqsUpTo({"k1", "k2"}, MaxLen) :
     \A i \in 1..Len(typeMapOfKeys(keys)) :
        LET g == typeMapOfKeys(keys)[i]
        IN /\ g.type.path = <<PIdx(g.indices[1])>>
           /\ StrictlyIncreasing(g.indices)
           /\ \A index \in 0..(Len(keys) - 1) :
                 keys[index + 1] = g.key <=> index \in Range(g.indices)

\* C27: each group of an array result is represented by the description of the element at
\* its first index, on the array's path followed by that index
C27_RepresentativeIsFirstElement ==
  /\ FirstElementRepresents
  /\ (value = Ref("ARR") /\ result.type = "array")
        => \A i \in 1..Len(result.elementTypes) :
              LET g == result.elementTypes[i]
              IN /\ g.indices # <<>>
                 /\ StrictlyIncreasing(g.indices)
                 /\ g.type.path = Append(result.path, PIdx(g.indices[1]))
                 /\ g.type = ElementDescription("ARR", g.indices[1])

\* [1, {v: 1}, {v: 1}] with the same object twice: the second occurrence is described as
\* a circular reference at its own index
C27_Witness ==
  /\ value = Ref("ARR")
  /\ heap["ARR"].items = <<Num("1"), Ref("S"), Ref("S")>>
  /\ config.maxDepth = 1
  /\ result.type = "array"
  /\ Len(result.elementTypes) = 3
  /\ result.elementTypes[2].type.type = "object"
  /\ result.elementTypes[2].type.path = <<PIdx(1)>>
  /\ result.elementTypes[3].type = [type |-> "circular-reference", path |-> <<PIdx(2)>>]

-----------------------------------------------------------------------------
(* C28: if collecting the prototype's callable member names raises while a  *)
(* generic object is analyzed (includePrototype and includeMethods set, and *)
(* reading some own member of the prototype throws), the result for that    *)
(* object is a single error variant at the object's path and none of its    *)
(* already analyzed properties or symbol properties are returned; siblings  *)
(* of the object in its parent are unaffected.                              *)

\* the member scan of the prototype of id runs and raises
PrototypeScanRaises(id) ==
  /\ config.includePrototype
  /\ config.includeMethods
  /\ heap[id].proto \notin {"null", "Object.prototype"}
  /\ \E m \in Range(PrototypeMembers(heap[id].proto)) : m.reads = "throws"

\* an error variant and nothing else
OnlyError(r, path) ==
  /\ DOMAIN r = {"type", "error", "path"}
  /\ r.type = "error"
  /\ r.error = errorText(PrototypeError)
  /\ r.path = path

\* the analysis of the parent when the failing object is not among its members
WithoutSub ==
  analyze([Env EXCEPT !.heap = withoutMember(heap, "NODEHOLDER", "sub")],
          Ref("NODEHOLDER"), defaultContext).res

\* C28: the object whose prototype scan raises is an error variant at its own path, at the
\* root and as a member; its siblings are described as they are without it
C28_PrototypeScanErrorReplacesObject ==
  /\ (value = Ref("NODE") /\ PrototypeScanRaises("NODE")) => OnlyError(result, <<>>)
  /\ (value = Ref("NODEHOLDER") /\ PrototypeScanRaises("NODE") /\ config.maxDepth >= 1)
        => /\ result.type = "object"
           /\ keysOf(result.properties) = <<"n", "sub", "s">>
           /\ OnlyError(propAt(result, "sub"), <<PKey("sub")>>)
           /\ propAt(result, "n") = propAt(WithoutSub, "n")
           /\ propAt(result, "s") = propAt(WithoutSub, "s")
           /\ propAt(result, "s").type = "object"

\* the DataNode as a member: its children were analyzed, and are not in the result
C28_Witness ==
  /\ value = Ref("NODEHOLDER")
  /\ config.includePrototype
  /\ config.includeMethods
  /\ config.maxDepth = 2
  /\ "PTARR" \in visited
  /\ propAt(result, "sub") =
        [type |-> "error", error |-> "prototype member failed", path |-> <<PKey("sub")>>]
  /\ propAt(propAt(result, "s"), "v").type = "number"

-----------------------------------------------------------------------------
(* C29: the OpenAPI emitter returns a schema document for every description *)
(* the analyzer can produce; in particular, for an array description whose  *)
(* elementTypes list is empty (an empty array at the root or as a property  *)
(* of an object) it emits an array schema instead of raising an error.      *)

\* the component of a document under name
componentAt(document, name) ==
  document.schemas[CHOOSE i \in 1..Len(document.schemas) : document.schemas[i].key = name].value

\* the schema of a property of a component
propertySchemaAt(component, key) ==
  component.properties[1][CHOOSE i \in 1..Len(component.properties[1]) :
                             component.properties[1][i].key = key].value

\* C29: generateSchemaFromData returns a document for every value, and an empty array is
\* an array schema in it
C29_OpenAPIDocumentForEveryDescription ==
  (schema.adapter = "openapi" /\ schema.data # NoValue)
    => /\ schema.out.type = "$document"
       /\ schema.data = Ref("ARR") => componentAt(schema.out, "Root").type = Some("array")
       /\ schema.data = Ref("TAGGED")
             => propertySchemaAt(componentAt(schema.out, "Root"), "tags").type = Some("array")

-----------------------------------------------------------------------------
(* C30: when the constructor is given a configuration that carries its own  *)
(* customTypes table, construction writes the built-in handler into that    *)
(* same table for every built-in named-composite name, overwriting any      *)
(* caller-supplied entry for those names, and leaves caller-supplied        *)
(* entries for all other names in place; two analyzers constructed with the *)
(* same table therefore share every later registerCustomType.               *)

\* what the construction of a with the caller's table does to that table
ConstructionWritesGivenTable(a) ==
  Construct(a, Some("given")) =>
    /\ analyzers'[a] = Constructed("given")
    /\ DOMAIN tables'["given"] = DOMAIN tables["given"] \cup BuiltInNames
    /\ \A n \in BuiltInNames : tables'["given"][n] = BuiltInTypes[n]
    /\ \A n \in DOMAIN tables["given"] \ BuiltInNames : tables'["given"][n] = tables["given"][n]

\* the handler analyzer b dispatches a Point or a Date to after the step
handlerAfter(b, id) ==
  customHandlerOf([heap |-> heap, config |-> config,
                   customTypes |-> tables'[analyzers'[b].customTypes]], id)

\* a registration on a is seen by every analyzer that holds the same table, and by no other
RegistrationShared(a, reg) ==
  RegisterOn(a, reg[1], reg[2]) =>
    \A b \in AnalyzerIds :
       analyzers[b] # NoAnalyzer =>
         IF analyzers[b].customTypes = analyzers[a].customTypes
           THEN /\ tableGet(tables'[analyzers'[b].customTypes], reg[1]) = reg[2]
                /\ reg[1] = "Point" => handlerAfter(b, "POINT") = reg[2]
                /\ reg[1] = "Date" => handlerAfter(b, "DATE") = reg[2]
           ELSE tables'[analyzers'[b].customTypes] = tables[analyzers[b].customTypes]

\* C30: construction with a caller's table registers the built-ins in that table, and the
\* analyzers that were given one table see each other's registrations
C30_GivenTableIsUsedAndShared ==
  [][/\ \A a \in AnalyzerIds : ConstructionWritesGivenTable(a)
     /\ \A a \in AnalyzerIds : \A reg \in ShareRegistrations : RegistrationShared(a, reg)]_vars

\* two analyzers on the caller's table, whose Date entry the construction has replaced and
\* whose Point entry it has kept, and a later registration of Widget
C30_Witness ==
  /\ analyzers[1] = Constructed("given")
  /\ analyzers[2] = Constructed("given")
  /\ tables["given"]["Date"] = "Date"
  /\ tableGet(tables["given"], "Point") = "otherHandler"
  /\ tableGet(tables["given"], "Widget") = "leafHandler"

====
